---- MODULE Spec2Model ----
(***************************************************************************)
(* Streaming classification and multi-device dispatch core of MindShow     *)
(* (integrated_mindshow_system.py): IntegratedEEGProcessor's debounced     *)
(* brain-state classifier, MultiPixelblazeController's continuous colour   *)
(* mood and its fan-out to the Pixelblaze devices.                         *)
(*                                                                         *)
(* Reals are fixed-point integers: the float x is the integer x * Scale.   *)
(* Time is counted in units of 100 ms (one period of the 10 Hz loop).      *)
(***************************************************************************)
EXTENDS Integers, Sequences, FiniteSets, TLC

Scale == 2 * 10^3
Half == Scale \div 2
TimeUnitsPerSecond == 2 * 5

\* ---------------------------------------------------------------- bounds
MaxTime == 50
MaxConfidence == 6
MaxChanges == 2
MaxStartDelay == 30
MaxDispatchTicks == 2
ScenarioATicks == 5
ScoreSteps == 20
MaxBrainTicks == 2
MaxLoopPasses == 3
MaxRetries == 8
MaxLoads == 2
MaxSwitches == 2
MaxConfigSteps == 3
NumHosts == 4
MaxUpdates == 3
MaxTestRounds == 3
MaxTransitionSteps == 4
MaxCommitTicks == 4
MaxCatalogText == 40
MaxHealthOps == 3

\* ------------------------------------------------- MindShowConfig defaults
attention_threshold == (75 * Scale) \div 100
relaxation_threshold == (65 * Scale) \div 100
state_confidence_required == 3
min_state_duration == 2 * TimeUnitsPerSecond

BrainStates == {"neutral", "engaged", "relaxed"}

VARIABLES
    \* IntegratedEEGProcessor
    eeg_last_brain_state,   \* self.last_brain_state
    state_confidence,       \* self.state_confidence
    last_state_change,      \* self.last_state_change
    now,                    \* the wall clock read by time.time()
    \* history of the classifier, recorded for the properties
    tick_confidence,        \* state_confidence as tested on the last tick
    change_count,           \* number of state changes so far
    prev_state_change,      \* last_state_change before the last change
    disagree_run,           \* consecutive disagreeing ticks ending now
    disagree_count,         \* disagreeing ticks since the last change
    commit_run,             \* disagree_run on the tick of the last change
    commit_disagree,        \* disagree_count on the tick of the last change
    \* position of a scripted scenario
    scenario_tick,          \* ticks of the scenario fed so far
    scenario_start,         \* clock reading of the scenario's first tick
    \* MindShowConfig tunables reachable through /api/update_config
    config,
    \* MultiPixelblazeController
    pb_last_brain_state,    \* self.last_brain_state
    previous_color_mood,    \* self.previous_color_mood
    color_mood_smoothing,   \* self.color_mood_smoothing
    last_attention,         \* self.last_attention
    last_relaxation,        \* self.last_relaxation
    devices,                \* self.devices: ip -> PixelblazeDevice
    device_order,           \* insertion order of self.devices
    \* the network
    link_up,                \* ip -> the device accepts sends and answers pings
    wire,                   \* ip -> messages delivered during the last call
    \* history of the last update_from_brain_state call
    call_brain_state,       \* its brain_state argument
    call_changed,           \* it differed from the argument of the call before
    was_connected,          \* devices connected when it started
    failed_now,             \* devices on which a send raised
    dispatch_result,        \* "none" before the first call, then how it ended
    \* the last call of an operation that is exercised on its own
    op_input,               \* its name and arguments
    op_output,              \* what it returned and what it did on the way
    \* MindShowIntegratedSystem
    running                 \* self.running

classifierVars == <<eeg_last_brain_state, state_confidence, last_state_change, now>>
historyVars == <<tick_confidence, change_count, prev_state_change, disagree_run,
                 disagree_count, commit_run, commit_disagree>>
scenarioVars == <<scenario_tick, scenario_start>>
controllerVars == <<pb_last_brain_state, previous_color_mood, color_mood_smoothing,
                    last_attention, last_relaxation, devices, device_order>>
networkVars == <<link_up, wire>>
callVars == <<call_brain_state, call_changed, was_connected, failed_now, dispatch_result>>
eegVars == <<classifierVars, historyVars>>
pixelblazeVars == <<controllerVars, networkVars, callVars>>
opVars == <<op_input, op_output>>
systemVars == <<running>>
vars == <<classifierVars, historyVars, scenarioVars, config, controllerVars,
          networkVars, callVars, opVars, systemVars>>

\* no operation has been exercised on its own
NoOp == [op |-> "none"]
OpInit == op_input = NoOp /\ op_output = NoOp

\* --------------------------------------------------------------- classifier
\* a classifier whose thresholds are reached rather than exceeded
CandidateStateNonStrict(attention, relaxation) ==
    IF attention >= attention_threshold THEN "engaged"
    ELSE IF relaxation >= relaxation_threshold THEN "relaxed"
    ELSE "neutral"

\* lines 397-402: the state the scores of this tick ask for
CandidateState(attention, relaxation) ==
    IF attention > attention_threshold THEN "engaged"
    ELSE IF relaxation > relaxation_threshold THEN "relaxed"
    ELSE "neutral"

\* a classifier that counts every disagreement twice
ConfidenceAfterDouble(confidence, new_state, last_state) ==
    IF new_state # last_state THEN confidence + 2
    ELSE IF confidence - 1 > 0 THEN confidence - 1 ELSE 0

\* lines 405-408: increment on disagreement, decay by one otherwise
ConfidenceAfter(confidence, new_state, last_state) ==
    IF new_state # last_state THEN confidence + 1
    ELSE IF confidence - 1 > 0 THEN confidence - 1 ELSE 0

\* a classifier that forgets the dwell time
ShouldCommitNoDwell(confidence, time_since_change) ==
    confidence >= state_confidence_required

\* a classifier that forgets the confidence counter
ShouldCommitNoConfidence(confidence, time_since_change) ==
    time_since_change >= min_state_duration

\* lines 414-415
ShouldCommit(confidence, time_since_change) ==
    /\ confidence >= state_confidence_required
    /\ time_since_change >= min_state_duration

\* the history counters saturate: the properties compare them with these caps
SatRun(n) == IF n > state_confidence_required THEN state_confidence_required ELSE n
SatChanges(n) == IF n > MaxChanges THEN MaxChanges ELSE n

\* lines 395-422, with the clock reading current_time of line 411
ClassifyStableBrainState(attention, relaxation, current_time) ==
    LET new_state == CandidateState(attention, relaxation)
        confidence == ConfidenceAfter(state_confidence, new_state, eeg_last_brain_state)
        commit == ShouldCommit(confidence, current_time - last_state_change)
        changed == commit /\ new_state # eeg_last_brain_state
        run == IF new_state # eeg_last_brain_state THEN SatRun(disagree_run + 1) ELSE 0
        count == IF new_state # eeg_last_brain_state THEN SatRun(disagree_count + 1)
                 ELSE disagree_count
    IN  /\ now' = current_time
        /\ eeg_last_brain_state' = IF changed THEN new_state ELSE eeg_last_brain_state
        /\ last_state_change' = IF changed THEN current_time ELSE last_state_change
        /\ state_confidence' = IF commit THEN 0 ELSE confidence
        /\ tick_confidence' = confidence
        /\ change_count' = IF changed THEN SatChanges(change_count + 1) ELSE change_count
        /\ prev_state_change' = IF changed THEN last_state_change ELSE prev_state_change
        /\ disagree_run' = IF changed THEN 0 ELSE run
        /\ disagree_count' = IF changed THEN 0 ELSE count
        /\ commit_run' = IF changed THEN run ELSE commit_run
        /\ commit_disagree' = IF changed THEN count ELSE commit_disagree

\* lines 292-295: IntegratedEEGProcessor.__init__ at time 0
ClassifierInit ==
    /\ eeg_last_brain_state = "neutral"
    /\ state_confidence = 0
    /\ last_state_change = 0
    /\ now = 0
    /\ tick_confidence = 0
    /\ change_count = 0
    /\ prev_state_change = 0
    /\ disagree_run = 0
    /\ disagree_count = 0
    /\ commit_run = 0
    /\ commit_disagree = 0

ScenarioInit ==
    /\ scenario_tick = 0
    /\ scenario_start = 0

\* line 2068: start() has set the flag the processing loop runs under
RunningInit == running = TRUE


\* ===========================================================================
\* MultiPixelblazeController
\* ===========================================================================
\* float arithmetic at the resolution 1/Scale: every product and quotient is
\* rounded to the nearest representable value
RoundDiv(n, d) == (2 * n + d) \div (2 * d)
Mul(x, y) == RoundDiv(x * y, Scale)

\* lines 88-92: MindShowConfig defaults of the colour mood
color_mood_smoothing_default == (3 * Scale) \div 10
color_mood_intensity_scale == (5 * Scale) \div 10
color_mood_attention_weight == (4 * Scale) \div 10
color_mood_relaxation_weight == (4 * Scale) \div 10

\* line 789 without the upper clamp
Clamp01NoCeiling(x) == IF x < 0 THEN 0 ELSE x

\* line 789: max(0.0, min(1.0, x))
Clamp01(x) == IF x < 0 THEN 0 ELSE IF x > Scale THEN Scale ELSE x

\* lines 773-786: the colour mood before clamping and easing
RawColorMood(attention, relaxation) ==
    LET attention_contribution == Mul(attention - Half, 0 - color_mood_attention_weight)
        relaxation_contribution == Mul(relaxation - Half, color_mood_relaxation_weight)
        engagement_level == RoundDiv(attention + relaxation, 2)
        intensity == color_mood_intensity_scale
                     + Mul(engagement_level, Scale - color_mood_intensity_scale)
    IN  Half + Mul(attention_contribution + relaxation_contribution, intensity)

\* lines 792-795: S-curve easing of a clamped value
Ease(x) ==
    IF x < Half THEN RoundDiv((2 * x) * (2 * x), 2 * Scale)
    ELSE Scale - RoundDiv((2 * (Scale - x)) * (2 * (Scale - x)), 2 * Scale)

\* lines 773-795
EasedColorMood(attention, relaxation) == Ease(Clamp01(RawColorMood(attention, relaxation)))

\* an average that adds the new value on top of the old one
SmoothNoBlend(alpha, eased, previous) == RoundDiv(alpha * eased + Scale * previous, Scale)

\* an average that overshoots its target
SmoothOvershoot(alpha, eased, previous) ==
    RoundDiv((alpha + Scale) * eased - alpha * previous, Scale)

\* lines 799-800: exponential moving average
Smooth(alpha, eased, previous) ==
    RoundDiv(alpha * eased + (Scale - alpha) * previous, Scale)

\* a transmission that truncates instead of rounding
Round3Truncate(x) == (x \div (Scale \div 1000)) * (Scale \div 1000)

\* line 809: round(x, 3), ties to even
Round3(x) ==
    LET unit == Scale \div 1000
        q == x \div unit
        r == x % unit
    IN  IF 2 * r > unit \/ (2 * r = unit /\ q % 2 = 1) THEN (q + 1) * unit ELSE q * unit

\* ------------------------------------------------------------ pattern names
UpperCase == <<"A","B","C","D","E","F","G","H","I","J","K","L","M",
               "N","O","P","Q","R","S","T","U","V","W","X","Y","Z">>
LowerCase == <<"a","b","c","d","e","f","g","h","i","j","k","l","m",
               "n","o","p","q","r","s","t","u","v","w","x","y","z">>

UpperToLower == [i \in 1..Len(UpperCase) |-> LowerCase[i]]
UpperIndex == [c \in {UpperCase[i] : i \in 1..Len(UpperCase)} |->
                 CHOOSE i \in 1..Len(UpperCase) : UpperCase[i] = c]

\* str.lower() of one character
LowerChar(c) == IF c \in DOMAIN UpperIndex THEN UpperToLower[UpperIndex[c]] ELSE c

\* str.lower()
Lower(str) == [i \in 1..Len(str) |-> LowerChar(str[i])]

\* needle in haystack
Contains(haystack, needle) ==
    \E i \in 0..(Len(haystack) - Len(needle)) :
        \A j \in 1..Len(needle) : haystack[i + j] = needle[j]

\* a match that compares the names as they are
NameMatchesCaseSensitive(pattern_name, pname) == Contains(pname, pattern_name)

\* line 853: pattern_name.lower() in pname.lower()
NameMatches(pattern_name, pname) ==
    LET haystack == Lower(pname)
        needle == Lower(pattern_name)
    IN  Contains(haystack, needle)

\* a lookup that falls back to the first catalog entry when no name matches
FindPatternIdFirstEntry(patterns, pattern_name) ==
    IF \E i \in 1..Len(patterns) : NameMatches(pattern_name, patterns[i][2])
    THEN patterns[CHOOSE i \in 1..Len(patterns) :
                    /\ NameMatches(pattern_name, patterns[i][2])
                    /\ \A j \in 1..(i - 1) : ~NameMatches(pattern_name, patterns[j][2])][1]
    ELSE IF patterns # <<>> THEN patterns[1][1] ELSE "None"

\* lines 851-855: id of the first catalog entry whose name matches, or "None";
\* the catalog is the dict in insertion order, a sequence of <<id, name>>
FindPatternId(patterns, pattern_name) ==
    IF \E i \in 1..Len(patterns) : NameMatches(pattern_name, patterns[i][2])
    THEN patterns[CHOOSE i \in 1..Len(patterns) :
                    /\ NameMatches(pattern_name, patterns[i][2])
                    /\ \A j \in 1..(i - 1) : ~NameMatches(pattern_name, patterns[j][2])][1]
    ELSE "None"

\* lines 621-649: state_mappings
Name_sparkfire == <<"s","p","a","r","k","f","i","r","e">>
Name_slow_waves == <<"s","l","o","w"," ","w","a","v","e","s">>
Name_rainbow == <<"r","a","i","n","b","o","w">>

state_mappings ==
    [engaged |-> [pattern_name |-> Name_sparkfire,
                  variables |-> [hue |-> 0, brightness |-> (9 * Scale) \div 10,
                                 speed |-> (8 * Scale) \div 10,
                                 colorMoodBias |-> (2 * Scale) \div 10]],
     relaxed |-> [pattern_name |-> Name_slow_waves,
                  variables |-> [hue |-> (67 * Scale) \div 100, brightness |-> (5 * Scale) \div 10,
                                 speed |-> (3 * Scale) \div 10,
                                 colorMoodBias |-> (8 * Scale) \div 10]],
     neutral |-> [pattern_name |-> Name_rainbow,
                  variables |-> [hue |-> (33 * Scale) \div 100, brightness |-> (7 * Scale) \div 10,
                                 speed |-> (5 * Scale) \div 10,
                                 colorMoodBias |-> (5 * Scale) \div 10]]]

\* line 819: self.state_mappings.get(brain_state, self.state_mappings['neutral'])
MappingFor(brain_state) ==
    IF brain_state \in DOMAIN state_mappings THEN state_mappings[brain_state]
    ELSE state_mappings["neutral"]

\* dict.update: the entries of updates over those of base
DictUpdate(base, updates) ==
    [k \in DOMAIN base \cup DOMAIN updates |->
        IF k \in DOMAIN updates THEN updates[k] ELSE base[k]]

\* dict.get(key, default)
DictGet(dict, key, default) == IF key \in DOMAIN dict THEN dict[key] ELSE default

\* ----------------------------------------------------------- configuration
\* lines 955-964: the parameter names /api/update_config accepts
valid_params == {"color_mood_smoothing", "color_mood_intensity_scale",
                 "color_mood_attention_weight", "color_mood_relaxation_weight",
                 "attention_min", "attention_max", "relaxation_min", "relaxation_max"}

\* lines 88-98: MindShowConfig defaults of those parameters
ConfigDefaults ==
    [color_mood_smoothing |-> color_mood_smoothing_default,
     color_mood_intensity_scale |-> color_mood_intensity_scale,
     color_mood_attention_weight |-> color_mood_attention_weight,
     color_mood_relaxation_weight |-> color_mood_relaxation_weight,
     attention_min |-> 0, attention_max |-> 10 * Scale,
     relaxation_min |-> 0, relaxation_max |-> 5 * Scale]

\* the attributes of MultiPixelblazeController that share a name with a
\* config parameter (lines 604-617): only the smoothing factor does
ControllerAttributes == {"color_mood_smoothing"}

\* lines 944-979 and 1913-1930: POST /api/update_config -> update_config
UpdateConfig(parameter, value) ==
    /\ parameter \in valid_params
    /\ parameter \in DOMAIN config
    /\ config' = [config EXCEPT ![parameter] = value]
    /\ color_mood_smoothing' =
          IF parameter \in ControllerAttributes /\ parameter = "color_mood_smoothing"
          THEN value ELSE color_mood_smoothing
    /\ UNCHANGED <<pb_last_brain_state, previous_color_mood, last_attention,
                   last_relaxation, devices, device_order>>
    /\ UNCHANGED <<eegVars, scenarioVars, systemVars, networkVars, callVars, opVars>>

\* ----------------------------------------------------------------- devices
NoMessages == <<>>
EmptyDict == <<>>

\* an update that records the variables before it sends them
UpdateDeviceContinuousMergeFirst(device, pattern_name, variables, fail_at) ==
    LET pattern_id == IF pattern_name # "None" /\ pattern_name # <<>>
                      THEN FindPatternId(device.patterns, pattern_name) ELSE "None"
        switch == pattern_id \notin {"None", ""}
        switch_msg == [kind |-> "activeProgramId", id |-> pattern_id]
        vars_msg == [kind |-> "setVars", vars |-> variables]
        vars_send == IF switch THEN 2 ELSE 1
    IN  IF switch /\ fail_at = 1
        THEN [device |-> [device EXCEPT !.connected = FALSE],
              sent |-> NoMessages, raised |-> TRUE]
        ELSE IF fail_at = vars_send
        THEN [device |-> [device EXCEPT !.connected = FALSE,
                                        !.active_pattern = IF switch THEN pattern_id ELSE @,
                                        !.variables = DictUpdate(@, variables)],
              sent |-> IF switch THEN <<switch_msg>> ELSE NoMessages, raised |-> TRUE]
        ELSE [device |-> [device EXCEPT !.active_pattern = IF switch THEN pattern_id ELSE @,
                                        !.variables = DictUpdate(@, variables)],
              sent |-> IF switch THEN <<switch_msg, vars_msg>> ELSE <<vars_msg>>,
              raised |-> FALSE]

\* lines 845-870: _update_device_continuous on one device. fail_at = k > 0
\* makes the k-th websocket.send of the call raise. The result is the device
\* afterwards, the messages that went out and whether a send raised.
UpdateDeviceContinuous(device, pattern_name, variables, fail_at) ==
    LET pattern_id == IF pattern_name # "None" /\ pattern_name # <<>>
                      THEN FindPatternId(device.patterns, pattern_name) ELSE "None"
        switch == pattern_id \notin {"None", ""}
        switch_msg == [kind |-> "activeProgramId", id |-> pattern_id]
        vars_msg == [kind |-> "setVars", vars |-> variables]
        vars_send == IF switch THEN 2 ELSE 1
    IN  IF switch /\ fail_at = 1
        THEN [device |-> [device EXCEPT !.connected = FALSE],
              sent |-> NoMessages, raised |-> TRUE]
        ELSE IF fail_at = vars_send
        THEN [device |-> [device EXCEPT !.connected = FALSE,
                                        !.active_pattern = IF switch THEN pattern_id ELSE @],
              sent |-> IF switch THEN <<switch_msg>> ELSE NoMessages, raised |-> TRUE]
        ELSE [device |-> [device EXCEPT !.active_pattern = IF switch THEN pattern_id ELSE @,
                                        !.variables = DictUpdate(@, variables)],
              sent |-> IF switch THEN <<switch_msg, vars_msg>> ELSE <<vars_msg>>,
              raised |-> FALSE]

\* a loop over the devices that stops at the first one whose send raises
TasksRunUntilFailure(order, connected, raising) ==
    {order[i] : i \in {j \in 1..Len(order) :
        /\ order[j] \in connected
        /\ \A k \in 1..(j - 1) : order[k] \notin raising}}

\* lines 833-843: one task per connected device, each runs to its end whatever
\* the others do (its own try/except, gather with return_exceptions=True)
TasksRun(order, connected, raising) ==
    {order[i] : i \in {j \in 1..Len(order) : order[j] \in connected}}

\* a dispatch that lets the first exception out
GatherResultPropagate(raising) == IF raising # {} THEN "raised" ELSE "returned"

\* lines 843 and 868-870: no exception leaves the dispatch
GatherResult(raising) == "returned"

\* a controller that never records the state it dispatched
NextLastBrainStateStale(brain_state, last) == last

\* lines 812-816
NextLastBrainState(brain_state, last) == IF brain_state # last THEN brain_state ELSE last

\* target variables that keep the table's colorMoodBias
TargetVariablesTableBias(mapping, final_color_mood) == mapping.variables

\* lines 821-824
TargetVariables(mapping, final_color_mood) ==
    DictUpdate(mapping.variables, [colorMoodBias |-> final_color_mood])

\* lines 755-843: update_from_brain_state. brain_data is a dict (the empty
\* dict and None are falsy); drop[ip] = k > 0 breaks the link of ip just
\* before the k-th send to it
UpdateFromBrainState(brain_state, brain_data, drop) ==
    LET truthy == DOMAIN brain_data # {}
        attention == IF truthy THEN DictGet(brain_data, "attention", Half) ELSE last_attention
        relaxation == IF truthy THEN DictGet(brain_data, "relaxation", Half) ELSE last_relaxation
        eased_color_mood == EasedColorMood(attention, relaxation)
        smoothed_color_mood == Smooth(color_mood_smoothing, eased_color_mood, previous_color_mood)
        final_color_mood == Round3(smoothed_color_mood)
        state_changed == brain_state # pb_last_brain_state
        mapping == MappingFor(brain_state)
        target_pattern == IF state_changed THEN mapping.pattern_name ELSE "None"
        target_variables == TargetVariables(mapping, final_color_mood)
        connected == {ip \in DOMAIN devices : devices[ip].connected}
        fail_at(ip) == IF ~link_up[ip] THEN 1 ELSE drop[ip]
        outcomes == [ip \in connected |->
                        UpdateDeviceContinuous(devices[ip], target_pattern,
                                               target_variables, fail_at(ip))]
        outcome(ip) == outcomes[ip]
        raising == {ip \in connected : outcome(ip).raised}
        tasks == TasksRun(device_order, connected, raising)
    IN  /\ last_attention' = attention
        /\ last_relaxation' = relaxation
        /\ previous_color_mood' = smoothed_color_mood
        /\ pb_last_brain_state' = NextLastBrainState(brain_state, pb_last_brain_state)
        /\ devices' = [ip \in DOMAIN devices |->
                         IF ip \in tasks THEN outcome(ip).device ELSE devices[ip]]
        /\ wire' = [ip \in DOMAIN devices |->
                         IF ip \in tasks THEN outcome(ip).sent ELSE NoMessages]
        /\ link_up' = [ip \in DOMAIN devices |->
                         IF ip \in tasks /\ drop[ip] > 0 THEN FALSE ELSE link_up[ip]]
        /\ dispatch_result' = GatherResult(raising \cap tasks)
        /\ call_brain_state' = brain_state
        /\ call_changed' = (brain_state # call_brain_state)
        /\ was_connected' = connected
        /\ failed_now' = raising \cap tasks
        /\ UNCHANGED <<color_mood_smoothing, device_order, config>>

\* lines 603-617: MultiPixelblazeController.__init__, and the registry that
\* discover_and_connect leaves (every registered device is connected)
ControllerInit(registry, order, smoothing) ==
    /\ config = [ConfigDefaults EXCEPT !.color_mood_smoothing = smoothing]
    /\ pb_last_brain_state = "neutral"
    /\ previous_color_mood = Half
    /\ color_mood_smoothing = config.color_mood_smoothing
    /\ last_attention = Half
    /\ last_relaxation = Half
    /\ devices = registry
    /\ device_order = order
    /\ link_up = [ip \in DOMAIN registry |-> TRUE]
    /\ wire = [ip \in DOMAIN registry |-> NoMessages]
    /\ call_brain_state = "neutral"
    /\ call_changed = FALSE
    /\ was_connected = {}
    /\ failed_now = {}
    /\ dispatch_result = "none"

\* no Pixelblaze was discovered
NoDevices == <<>>
NoOrder == <<>>

SystemInit ==
    /\ ClassifierInit /\ ScenarioInit /\ RunningInit /\ OpInit
    /\ ControllerInit(NoDevices, NoOrder, color_mood_smoothing_default)

\* scores fed to the classifier: below, at and above each threshold
ScoreValues == {Half, relaxation_threshold, attention_threshold, (9 * Scale) \div 10}
\* (attention, relaxation) pairs: every candidate state and the threshold edges
ScorePairs == {<<Half, Half>>, <<attention_threshold, relaxation_threshold>>,
               <<(9 * Scale) \div 10, Half>>, <<(9 * Scale) \div 10, (9 * Scale) \div 10>>,
               <<Half, (9 * Scale) \div 10>>}
\* time between two readings of the clock (non-decreasing clock)
ClockSteps == {0, 1, TimeUnitsPerSecond, min_state_duration}

ClassifyTick ==
    \E scores \in ScorePairs, dt \in ClockSteps :
        /\ now + dt <= MaxTime
        /\ state_confidence < MaxConfidence
        /\ ClassifyStableBrainState(scores[1], scores[2], now + dt)
        /\ UNCHANGED <<scenarioVars, systemVars, config, pixelblazeVars, opVars>>

SpecClassifier == SystemInit /\ [][ClassifyTick]_vars

\* ------------------------------------------------------------ the mood alone
\* brain_data dicts: the empty one, one without the two keys, complete ones
BrainDataEmpty == <<>>
BrainDataOtherKeys == [k \in {"attention_score", "relaxation_score"} |-> (8 * Scale) \div 10]
BrainDataFull(attention, relaxation) ==
    [k \in {"attention", "relaxation"} |-> IF k = "attention" THEN attention ELSE relaxation]

\* (attention, relaxation) pairs: inside [0, 1], and outside it on both sides
MoodPairs == {<<(8 * Scale) \div 10, (2 * Scale) \div 10>>,
              <<4 * Scale, 0 - 3 * Scale>>, <<0 - 3 * Scale, 4 * Scale>>}
MoodInputs == {BrainDataEmpty, BrainDataOtherKeys}
              \cup {BrainDataFull(pair[1], pair[2]) : pair \in MoodPairs}

\* smoothing factors inside (0, 1], and one /api/update_config also accepts
ValidSmoothing == {Scale \div 10, (3 * Scale) \div 10, Scale}
AnySmoothing == ValidSmoothing \cup {(15 * Scale) \div 10}

NoDrop == [ip \in DOMAIN devices |-> 0]

MoodTick ==
    /\ \E brain_state \in BrainStates, brain_data \in MoodInputs :
          UpdateFromBrainState(brain_state, brain_data, NoDrop)
    /\ UNCHANGED <<eegVars, scenarioVars, systemVars, opVars>>

SetValidSmoothing == \E value \in ValidSmoothing : UpdateConfig("color_mood_smoothing", value)

SetAnySmoothing == \E value \in AnySmoothing : UpdateConfig("color_mood_smoothing", value)

\* the mood under smoothing factors in (0, 1]
SpecMood == SystemInit /\ [][MoodTick \/ SetValidSmoothing]_vars

\* the mood under every smoothing factor the dashboard can set
SpecMoodConfig == SystemInit /\ [][MoodTick \/ SetAnySmoothing]_vars

\* ------------------------------------------------------------- Scenario B
\* attention 0.8 and relaxation 0.2 on every tick, under a smoothing factor
\* chosen at construction; the loop never stops ticking
ScenarioBSmoothing == {(2 * Scale) \div 10, (3 * Scale) \div 10, (5 * Scale) \div 10, Scale}

ScenarioBInit ==
    /\ ClassifierInit /\ ScenarioInit /\ RunningInit /\ OpInit
    /\ \E smoothing \in ScenarioBSmoothing : ControllerInit(NoDevices, NoOrder, smoothing)

ScenarioBTick ==
    /\ \E brain_state \in BrainStates :
          UpdateFromBrainState(brain_state,
              BrainDataFull((8 * Scale) \div 10, (2 * Scale) \div 10), NoDrop)
    /\ UNCHANGED <<eegVars, scenarioVars, systemVars, opVars>>

SpecScenarioB == ScenarioBInit /\ [][ScenarioBTick]_vars /\ WF_vars(ScenarioBTick)

\* ------------------------------------------------------------ the dispatch
DeviceIPs == {"192.168.0.11", "192.168.0.12"}
DiscoveryOrder == <<"192.168.0.11", "192.168.0.12">>

\* catalogs a device can have answered listPrograms with
CatalogFull == << <<"AB12CD34", <<"S","p","a","r","k","f","i","r","e">> >>,
                  <<"EF56GH78", <<"f","a","s","t"," ","r","a","i","n","b","o","w">> >>,
                  <<"IJ90KL12", <<"S","l","o","w"," ","W","a","v","e","s">> >> >>
CatalogOther == << <<"MN34OP56", <<"h","o","n","e","y","c","o","m","b">> >> >>
CatalogEmpty == <<>>
CatalogOptions == {CatalogFull, CatalogOther, CatalogEmpty}

\* lines 664-667 and 685-690: a device as _connect_device leaves it
ConnectedDevice(catalog) ==
    [connected |-> TRUE, patterns |-> catalog, active_pattern |-> "None",
     variables |-> EmptyDict]

DispatchInit ==
    /\ ClassifierInit /\ ScenarioInit /\ RunningInit /\ OpInit
    /\ \E catalogs \in [DeviceIPs -> CatalogOptions] :
          ControllerInit([ip \in DeviceIPs |-> ConnectedDevice(catalogs[ip])],
                         DiscoveryOrder, color_mood_smoothing_default)

DispatchInputs == {BrainDataFull((8 * Scale) \div 10, (2 * Scale) \div 10)}

DispatchTick ==
    /\ scenario_tick < MaxDispatchTicks
    /\ \E brain_state \in BrainStates, brain_data \in DispatchInputs,
          drop \in [DOMAIN devices -> 0..2] :
            UpdateFromBrainState(brain_state, brain_data, drop)
    /\ scenario_tick' = scenario_tick + 1
    /\ UNCHANGED <<eegVars, scenario_start, systemVars, opVars>>

\* the dispatch over MaxDispatchTicks calls, any send of which may raise
SpecDispatch == DispatchInit /\ [][DispatchTick]_vars

\* --------------------------------------------------- the loop left running
\* neutral scores on every tick, for ever; scenario_tick is the parity of the
\* number of ticks
RunningTick ==
    /\ \E brain_state \in BrainStates, drop \in [DOMAIN devices -> 0..1] :
          UpdateFromBrainState(brain_state, BrainDataOtherKeys, drop)
    /\ scenario_tick' = (scenario_tick + 1) % 2
    /\ UNCHANGED <<eegVars, scenario_start, systemVars, opVars>>

\* the network loses a device between two calls
LinkDrop ==
    /\ \E ip \in DOMAIN devices :
          /\ link_up[ip]
          /\ link_up' = [link_up EXCEPT ![ip] = FALSE]
    /\ UNCHANGED <<eegVars, scenarioVars, systemVars, config, controllerVars, wire, callVars, opVars>>

\* the device is back and would answer a ping
LinkRestore ==
    /\ \E ip \in DOMAIN devices :
          /\ ~link_up[ip]
          /\ link_up' = [link_up EXCEPT ![ip] = TRUE]
    /\ UNCHANGED <<eegVars, scenarioVars, systemVars, config, controllerVars, wire, callVars, opVars>>

RunningNext == RunningTick \/ LinkDrop \/ LinkRestore

\* one more pass of the processing loop: RunningTick is the only action that
\* moves scenario_tick, and it is always enabled
LoopTicks == scenario_tick' = (scenario_tick + 1) % 2

\* the processing loop keeps ticking (lines 2101-2181)
SpecRunning == DispatchInit /\ [][RunningNext]_vars /\ WF_scenario_tick(LoopTicks)

\* ---------------------------------------------------------------------------
\* C1: the current brain state changes on a tick only if the confidence
\* counter, after this tick's increment or decay, has reached
\* state_confidence_required and min_state_duration has passed since the last
\* change; a change resets the counter to 0 and records the time of the tick.
C1_ChangeNeedsConfidenceAndDwell ==
    [][eeg_last_brain_state' # eeg_last_brain_state =>
        /\ tick_confidence' >= state_confidence_required
        /\ now' - last_state_change >= min_state_duration
        /\ state_confidence' = 0
        /\ last_state_change' = now']_vars

C1_Witness ==
    /\ change_count >= 1
    /\ eeg_last_brain_state # "neutral"
    /\ last_state_change = now
    /\ state_confidence = 0

\* C2: under a non-decreasing clock any two successive changes of the current
\* brain state are at least min_state_duration apart.
C2_ChangesDwellApart ==
    change_count >= 2 => last_state_change - prev_state_change >= min_state_duration

C2_Witness ==
    /\ change_count >= 2
    /\ last_state_change - prev_state_change = min_state_duration

ScenarioATick ==
    /\ scenario_tick < ScenarioATicks
    /\ \E relaxation \in ScoreValues,
          dt \in IF scenario_tick = 0 THEN 0..MaxStartDelay ELSE {1} :
            /\ ClassifyStableBrainState((9 * Scale) \div 10, relaxation, now + dt)
            /\ scenario_start' = IF scenario_tick = 0 THEN now + dt ELSE scenario_start
    /\ scenario_tick' = scenario_tick + 1
    /\ UNCHANGED <<systemVars, config, pixelblazeVars, opVars>>

SpecScenarioA == SystemInit /\ [][ScenarioATick]_vars

\* C4: fed 5 consecutive ticks at 10 Hz with attention 0.9, a classifier
\* created in Neutral has changed to Engaged exactly once by the end of them.
C4_ScenarioA_OneTransition ==
    scenario_tick = ScenarioATicks =>
        change_count = 1 /\ eeg_last_brain_state = "engaged"

\* ---------------------------------------------------------------------------
\* what one device received during the last update_from_brain_state call
SetVarsIndexes(ip) == {i \in 1..Len(wire[ip]) : wire[ip][i].kind = "setVars"}
SwitchIndexes(ip) == {i \in 1..Len(wire[ip]) : wire[ip][i].kind = "activeProgramId"}
Abs(x) == IF x < 0 THEN 0 - x ELSE x

\* a setVars payload of the last call: the base hue/brightness/speed of the
\* call's state and the smoothed mood at three decimals as colorMoodBias
IsPayloadOfLastCall(payload) ==
    LET base == state_mappings[call_brain_state].variables
        unit == Scale \div 1000
    IN  /\ DOMAIN payload = {"hue", "brightness", "speed", "colorMoodBias"}
        /\ payload["hue"] = base.hue
        /\ payload["brightness"] = base.brightness
        /\ payload["speed"] = base.speed
        /\ payload["colorMoodBias"] % unit = 0
        /\ 2 * Abs(payload["colorMoodBias"] - previous_color_mood) <= unit

OneSetVarsOfLastCall(ip) ==
    /\ Cardinality(SetVarsIndexes(ip)) = 1
    /\ \A i \in SetVarsIndexes(ip) : IsPayloadOfLastCall(wire[ip][i].vars)

SwitchOnlyOnChange == \A ip \in DOMAIN devices : SwitchIndexes(ip) # {} => call_changed

\* C5 as claimed: on every update_from_brain_state call each device connected
\* at its start is sent exactly one setVars message carrying the state's base
\* hue/brightness/speed and the smoothed mood, rounded to 3 decimals, as
\* colorMoodBias; activeProgramId goes out only on calls whose brain_state
\* differs from that of the previous call.
C5_EveryConnectedDeviceGetsSetVars ==
    dispatch_result # "none" =>
        /\ \A ip \in was_connected : OneSetVarsOfLastCall(ip)
        /\ SwitchOnlyOnChange

\* C5 as amended: each device connected at the start of the call is sent
\* exactly one such setVars message unless a send to it raises during the
\* call; a device on which a send raises is sent no setVars message in that
\* call and is marked disconnected. activeProgramId goes out only on calls
\* whose brain_state differs from that of the previous call.
C5_SetVarsUnlessSendRaises ==
    dispatch_result # "none" =>
        /\ \A ip \in was_connected \ failed_now : OneSetVarsOfLastCall(ip)
        /\ \A ip \in failed_now : SetVarsIndexes(ip) = {} /\ ~devices[ip].connected
        /\ SwitchOnlyOnChange

C5_Witness ==
    /\ failed_now # {}
    /\ \E ip \in was_connected \ failed_now :
          /\ Len(wire[ip]) = 2
          /\ wire[ip][2].vars["colorMoodBias"] # state_mappings[call_brain_state].variables.colorMoodBias

\* the messages a device that stayed up is owed by the last call: the pattern
\* switch when the state changed and its catalog has the pattern, then setVars
HasPatternFor(ip, brain_state) ==
    \E i \in 1..Len(devices[ip].patterns) :
        NameMatches(state_mappings[brain_state].pattern_name, devices[ip].patterns[i][2])

ReceivedItsMessages(ip) ==
    /\ Len(wire[ip]) >= 1
    /\ wire[ip][Len(wire[ip])].kind = "setVars"
    /\ Cardinality(SetVarsIndexes(ip)) = 1
    /\ (call_changed /\ HasPatternFor(ip, call_brain_state)) => Len(wire[ip]) = 2

\* C6: when the send to one device raises, every other connected device still
\* receives its messages of that dispatch, the dispatch returns without
\* raising, and later dispatches still serve the devices that are left.
C6_DispatchIsolation ==
    (\E k \in DOMAIN devices : ~devices[k].connected) =>
        /\ dispatch_result = "returned"
        /\ \A ip \in was_connected \ failed_now :
              ReceivedItsMessages(ip) /\ devices[ip].connected

C6_Witness ==
    /\ failed_now = {}
    /\ \E k \in DOMAIN devices : ~devices[k].connected /\ k \notin was_connected
    /\ \E ip \in was_connected : Len(wire[ip]) = 2 /\ devices[ip].connected

\* C7: a device that left Connected is brought back once it answers pings
\* again: it is not for ever reachable and disconnected.
C7_DeviceRecovers ==
    \A ip \in DeviceIPs : []<>(~(link_up[ip] /\ ~devices[ip].connected))

\* C8: on every update_from_brain_state tick the smoothed mood moves by at
\* most the smoothing factor in effect on that tick.
C8_MoodContinuity ==
    [][Abs(previous_color_mood' - previous_color_mood) <= color_mood_smoothing]_vars

\* C9: from 0.5, whatever finite attention and relaxation the calls bring and
\* under smoothing factors in (0, 1], the smoothed mood stays within [0, 1].
C9_MoodBounded == 0 <= previous_color_mood /\ previous_color_mood <= Scale

C9_Witness ==
    /\ previous_color_mood = Scale
    /\ last_relaxation > Scale
    /\ last_attention < 0

\* the eased raw mood of Scenario B
ScenarioBTarget == EasedColorMood((8 * Scale) \div 10, (2 * Scale) \div 10)
ScenarioBTolerance == Scale \div 500

\* C10: with attention 0.8 and relaxation 0.2 on every tick the eased raw mood
\* is a constant near 0.2, and the smoothed mood, from 0.5, only ever moves
\* down towards it, never passes below it and ends up as close as 0.002 to it.
C10_ScenarioB_Approach ==
    /\ [](/\ Abs(ScenarioBTarget - (2 * Scale) \div 10) <= Scale \div 100
          /\ previous_color_mood >= ScenarioBTarget)
    /\ [][previous_color_mood' <= previous_color_mood]_vars
    /\ <>[](previous_color_mood - ScenarioBTarget <= ScenarioBTolerance)

C10_Witness ==
    /\ dispatch_result = "returned"
    /\ previous_color_mood < Half
    /\ previous_color_mood - ScenarioBTarget <= ScenarioBTolerance
    /\ color_mood_smoothing < Scale

\* ---------------------------------------------------------------------------
\* normalized scores: a grid over [0, 1], the thresholds and their neighbours
ScoreGrid == {(i * Scale) \div ScoreSteps : i \in 0..ScoreSteps}
             \cup {attention_threshold, attention_threshold + 1,
                   relaxation_threshold, relaxation_threshold + 1}

CandidateInit ==
    /\ ClassifierInit /\ ScenarioInit /\ RunningInit
    /\ ControllerInit(NoDevices, NoOrder, color_mood_smoothing_default)
    /\ \E attention \in ScoreGrid, relaxation \in ScoreGrid :
          op_input = [op |-> "candidate", attention |-> attention,
                      relaxation |-> relaxation]
    /\ op_output = NoOp

\* lines 397-402 applied to the scores drawn at the start
CandidateCall ==
    /\ op_output = NoOp
    /\ op_output' = [op |-> "candidate",
                     new_state |-> CandidateState(op_input.attention, op_input.relaxation)]
    /\ UNCHANGED <<eegVars, scenarioVars, systemVars, config, pixelblazeVars, op_input>>

SpecCandidate == CandidateInit /\ [][CandidateCall]_vars

\* C11: the candidate state of a tick is engaged if attention exceeds
\* attention_threshold; otherwise relaxed if relaxation exceeds
\* relaxation_threshold; otherwise neutral. The comparisons are strict and
\* engaged wins when both thresholds are exceeded.
C11_CandidateState ==
    op_output.op = "candidate" =>
        LET over_attention == op_input.attention > attention_threshold
            over_relaxation == op_input.relaxation > relaxation_threshold
        IN  /\ over_attention => op_output.new_state = "engaged"
            /\ (~over_attention /\ over_relaxation) => op_output.new_state = "relaxed"
            /\ (~over_attention /\ ~over_relaxation) => op_output.new_state = "neutral"

C11_Witness ==
    /\ op_output.op = "candidate"
    /\ op_input.attention = attention_threshold
    /\ op_input.relaxation > relaxation_threshold
    /\ op_output.new_state = "relaxed"

\* ===========================================================================
\* IntegratedEEGProcessor.get_brain_state
\* ===========================================================================
\* a float is its fixed-point integer, or the one value that is not a number
NaN == 0 - 2^30
IsNaN(x) == x = NaN

\* x > 0 as Python evaluates it: False for NaN
Positive(x) == ~IsNaN(x) /\ x > 0

\* a / b for b > 0; NaN if either is NaN
FDiv(a, b) == IF IsNaN(a) \/ IsNaN(b) THEN NaN ELSE RoundDiv(a * Scale, b)
FMul(a, b) == IF IsNaN(a) \/ IsNaN(b) THEN NaN ELSE Mul(a, b)

\* max(a, b) and min(a, b) of Python: the first argument unless the second
\* compares greater (smaller), which NaN never does
PyMax(a, b) == IF ~IsNaN(b) /\ b > a THEN b ELSE a
PyMin(a, b) == IF ~IsNaN(b) /\ b < a THEN b ELSE a

\* min(1.0, max(0.0, x))
Unit(x) == PyMin(Scale, PyMax(0, x))

BandNames == {"delta", "theta", "alpha", "beta", "gamma"}

\* [v for v in band_powers.values() if not np.isnan(v) and v > 0]
AvailablePowers(band_powers) == {k \in DOMAIN band_powers : Positive(band_powers[k])}

RECURSIVE SumOver(_, _)
SumOver(band_powers, keys) ==
    IF keys = {} THEN 0
    ELSE LET k == CHOOSE x \in keys : TRUE
         IN  band_powers[k] + SumOver(band_powers, keys \ {k})

\* lines 345-349: beta / alpha, or 0.5 without alpha activity
AttentionRatio(band_powers) ==
    IF Positive(band_powers["alpha"])
    THEN FDiv(band_powers["beta"], band_powers["alpha"])
    ELSE Half

\* lines 424-455: _calculate_relaxation_robust
CalculateRelaxationRobust(band_powers) ==
    LET alpha == band_powers["alpha"]
        total_power == SumOver(band_powers, AvailablePowers(band_powers))
    IN  IF Positive(band_powers["theta"]) THEN FDiv(alpha, band_powers["theta"])
        ELSE IF Positive(band_powers["delta"]) THEN FDiv(alpha, band_powers["delta"])
        ELSE IF Positive(alpha) THEN PyMin(5 * Scale, FDiv(alpha, 10 * Scale))
        ELSE IF total_power > 0 /\ ~IsNaN(alpha)
             THEN FMul(FDiv(alpha, total_power), 5 * Scale)
        ELSE Half

\* lines 473-478 and 496-501: the average of the available bands over 10
AverageScaling(band_powers) ==
    LET available == AvailablePowers(band_powers)
    IN  IF available # {}
        THEN Unit(FDiv(RoundDiv(SumOver(band_powers, available), Cardinality(available)),
                       10 * Scale))
        ELSE Half

\* lines 457-478: _dynamic_relaxation_scaling
DynamicRelaxationScaling(band_powers) ==
    IF Positive(band_powers["alpha"])
    THEN Unit(FDiv(band_powers["alpha"], 20 * Scale))
    ELSE IF Positive(band_powers["theta"])
    THEN Unit(FDiv(FDiv(Scale, band_powers["theta"] + Scale \div 10), 10 * Scale))
    ELSE AverageScaling(band_powers)

\* lines 480-501: _dynamic_attention_scaling
DynamicAttentionScaling(band_powers) ==
    IF Positive(band_powers["beta"])
    THEN Unit(FDiv(band_powers["beta"], 15 * Scale))
    ELSE IF Positive(band_powers["alpha"])
    THEN Unit(FDiv(FDiv(Scale, band_powers["alpha"] + Scale \div 10), 10 * Scale))
    ELSE AverageScaling(band_powers)

\* lines 362-363: (score - min) / range, clamped to [0, 1]
Normalize(score, lo, hi) ==
    Unit(IF IsNaN(score) THEN NaN ELSE FDiv(score - lo, hi - lo))

\* lines 339-379: the two scores of a tick. A range of width 0 makes the
\* division of line 362 or 363 raise
BrainScores(band_powers, cfg) ==
    LET attention_ratio == AttentionRatio(band_powers)
        relaxation_ratio == CalculateRelaxationRobust(band_powers)
        raised == cfg.attention_max = cfg.attention_min
                  \/ cfg.relaxation_max = cfg.relaxation_min
        attention_score == Normalize(attention_ratio, cfg.attention_min, cfg.attention_max)
        relaxation_score == Normalize(relaxation_ratio, cfg.relaxation_min,
                                      cfg.relaxation_max)
    IN  IF raised
        THEN [raised |-> TRUE, attention_ratio |-> attention_ratio,
              relaxation_ratio |-> relaxation_ratio, attention |-> Half,
              relaxation |-> Half]
        ELSE [raised |-> FALSE, attention_ratio |-> attention_ratio,
              relaxation_ratio |-> relaxation_ratio,
              attention |-> IF attention_score = 0
                            THEN DynamicAttentionScaling(band_powers)
                            ELSE attention_score,
              relaxation |-> IF relaxation_score = 0
                             THEN DynamicRelaxationScaling(band_powers)
                             ELSE relaxation_score]

\* processor.get_data() brought nothing (or the processor is not connected)
NoRawData == <<>>
RawData(band_powers) == [k \in {"band_powers"} |-> band_powers]

\* a processor whose confidence decays on a tick without data
ClassifierIdleDecay ==
    /\ state_confidence' = IF state_confidence > 0 THEN state_confidence - 1 ELSE 0
    /\ UNCHANGED <<eeg_last_brain_state, last_state_change, now, historyVars>>

\* lines 329-337: get_brain_state returns before it reaches the classifier
ClassifierIdle == UNCHANGED <<classifierVars, historyVars>>

\* lines 327-393: get_brain_state at the clock reading current_time
GetBrainState(raw_data, current_time) ==
    IF DOMAIN raw_data = {}
    THEN /\ ClassifierIdle
         /\ op_output' = [op |-> "get_brain_state", returned |-> "None"]
    ELSE LET scores == BrainScores(raw_data.band_powers, config)
         IN  IF scores.raised
             THEN /\ ClassifierIdle
                  /\ op_output' = [op |-> "get_brain_state",
                                   returned |-> "ZeroDivisionError"]
             ELSE /\ ClassifyStableBrainState(scores.attention, scores.relaxation,
                                              current_time)
                  /\ op_output' = [op |-> "get_brain_state", returned |-> "dict",
                                   attention_ratio |-> scores.attention_ratio,
                                   relaxation_ratio |-> scores.relaxation_ratio,
                                   attention |-> scores.attention,
                                   relaxation |-> scores.relaxation,
                                   brain_state |-> eeg_last_brain_state']

\* band powers: not a number, absent, and two levels of activity
BandValues == {NaN, 0, 2 * Scale, 8 * Scale}
BandPowerInputs == {band_powers \in [BandNames -> BandValues] :
                       band_powers["gamma"] = 2 * Scale}
RawDataInputs == {NoRawData} \cup {RawData(band_powers) : band_powers \in BandPowerInputs}

\* one call of get_brain_state by the processing loop (line 2106)
GetBrainStateTick ==
    /\ scenario_tick < MaxBrainTicks
    /\ \E raw_data \in RawDataInputs, dt \in {1, min_state_duration} :
          /\ GetBrainState(raw_data, now + dt)
          /\ op_input' = [op |-> "get_brain_state", raw_data |-> raw_data]
    /\ scenario_tick' = scenario_tick + 1
    /\ UNCHANGED <<scenario_start, systemVars, config, pixelblazeVars>>

SpecBrainState == SystemInit /\ [][GetBrainStateTick]_vars

\* the band a ratio divides by is zero or not a number
Dropout(x) == IsNaN(x) \/ x = 0

\* C12: when the band power a ratio divides by is zero or NaN (alpha for
\* attention = beta/alpha, theta for relaxation = alpha/theta), get_brain_state
\* uses the neutral ratio 0.5 for that metric, raises nothing and returns the
\* tick's classification.
C12_NeutralRatioOnDropout ==
    (op_output.op = "get_brain_state" /\ DOMAIN op_input.raw_data # {}) =>
        LET band_powers == op_input.raw_data["band_powers"]
        IN  /\ op_output.returned = "dict"
            /\ Dropout(band_powers["alpha"]) => op_output.attention_ratio = Half
            /\ Dropout(band_powers["theta"]) => op_output.relaxation_ratio = Half

\* ===========================================================================
\* MindShowIntegratedSystem._processing_loop
\* ===========================================================================
\* lines 2102-2186: one pass of the loop at clock reading current_time.
\* dispatch_result tells how the pass went: "returned" when the controller
\* was updated, "skipped" without data, "error" when the except clause of
\* line 2183 caught an exception. wire holds what went out during the pass.
ProcessingLoopPass(raw_data, current_time, drop) ==
    /\ op_input' = [op |-> "get_brain_state", raw_data |-> raw_data]
    /\ GetBrainState(raw_data, current_time)
    /\ IF op_output'.returned = "dict"
       THEN UpdateFromBrainState(op_output'.brain_state,
                BrainDataFull(op_output'.attention, op_output'.relaxation), drop)
       ELSE /\ dispatch_result' = IF op_output'.returned = "None" THEN "skipped"
                                  ELSE "error"
            /\ wire' = [ip \in DOMAIN devices |-> NoMessages]
            /\ UNCHANGED <<controllerVars, config, link_up, call_brain_state,
                           call_changed, was_connected, failed_now>>

\* band powers that normalize to high attention, and to neutral scores
BandsEngaged == [k \in BandNames |-> IF k = "beta" THEN 18 * Scale ELSE 2 * Scale]
BandsNeutral == [k \in BandNames |-> 2 * Scale]
LoopInputs == {NoRawData, RawData(BandsEngaged), RawData(BandsNeutral)}

\* the send to the first device may fail during a pass
LoopDrops == {[ip \in DeviceIPs |-> 0],
              [ip \in DeviceIPs |-> IF ip = DiscoveryOrder[1] THEN 1 ELSE 0]}

LoopPass ==
    /\ scenario_tick < MaxLoopPasses
    /\ \E raw_data \in LoopInputs, dt \in {1, min_state_duration}, drop \in LoopDrops :
          ProcessingLoopPass(raw_data, now + dt, drop)
    /\ scenario_tick' = scenario_tick + 1
    /\ UNCHANGED <<scenario_start, systemVars>>

SpecLoop == DispatchInit /\ [][LoopPass]_vars

\* C13: on a pass where get_brain_state returns None the tick is skipped: the
\* classifier (state, confidence counter, time of the last change) and the
\* mood (smoothed value, last scores, controller state) are unchanged, the
\* devices are as they were and receive nothing, and no error is raised.
C13_NoDataSkipsTick ==
    [][(scenario_tick' # scenario_tick /\ op_output'.returned = "None") =>
          /\ UNCHANGED <<eeg_last_brain_state, state_confidence, last_state_change>>
          /\ UNCHANGED <<pb_last_brain_state, previous_color_mood, last_attention,
                         last_relaxation, devices>>
          /\ \A ip \in DeviceIPs : wire'[ip] = NoMessages
          /\ dispatch_result' = "skipped"]_vars

C13_Witness ==
    /\ dispatch_result = "skipped"
    /\ op_output.returned = "None"
    /\ state_confidence > 0
    /\ previous_color_mood # Half
    /\ \E ip \in DeviceIPs : devices[ip].connected /\ devices[ip].variables # EmptyDict

\* ===========================================================================
\* RobustWebSocketController.connect_with_retry (robust_websocket_controller.py)
\* ===========================================================================
\* how one attempt ends: the ping is answered with a JSON object that holds
\* "ack", with one that does not, or create_connection/send/recv/json.loads
\* raises
AttemptOutcomes == {"ack", "no_ack", "raises"}

\* lines 57-94: the loop from attempt number attempt on, having slept waits so
\* far; outcomes[k + 1] is how attempt number k ends
RECURSIVE RetryLoop(_, _, _, _, _)
RetryLoop(max_retries, retry_delay, outcomes, attempt, waits) ==
    IF attempt >= max_retries
    THEN [returned |-> FALSE, raised |-> FALSE, attempts |-> attempt, waits |-> waits,
          is_healthy |-> FALSE, ws |-> "None"]
    ELSE IF outcomes[attempt + 1] = "ack"
    THEN [returned |-> TRUE, raised |-> FALSE, attempts |-> attempt + 1, waits |-> waits,
          is_healthy |-> TRUE, ws |-> "open"]
    ELSE IF attempt < max_retries - 1
    THEN RetryLoop(max_retries, retry_delay, outcomes, attempt + 1,
                   Append(waits, retry_delay * 2^attempt))
    ELSE [returned |-> FALSE, raised |-> FALSE, attempts |-> attempt + 1, waits |-> waits,
          is_healthy |-> FALSE, ws |-> "None"]

\* lines 50-94
ConnectWithRetry(max_retries, retry_delay, outcomes) ==
    RetryLoop(max_retries, retry_delay, outcomes, 0, <<>>)

\* lines 27-48: RobustWebSocketController(address, max_retries, retry_delay)
RetryInit ==
    /\ ClassifierInit /\ ScenarioInit /\ RunningInit
    /\ ControllerInit(NoDevices, NoOrder, color_mood_smoothing_default)
    /\ \E max_retries \in 0..MaxRetries,
          retry_delay \in {TimeUnitsPerSecond \div 2, TimeUnitsPerSecond} :
          op_input = [op |-> "RobustWebSocketController", max_retries |-> max_retries,
                      retry_delay |-> retry_delay]
    /\ op_output = NoOp

\* one connection cycle of the controller
ConnectWithRetryCall ==
    /\ op_output = NoOp
    /\ \E outcomes \in [1..op_input.max_retries -> AttemptOutcomes] :
          op_output' = [op |-> "connect_with_retry", outcomes |-> outcomes,
                        call |-> ConnectWithRetry(op_input.max_retries,
                                                  op_input.retry_delay, outcomes)]
    /\ UNCHANGED <<eegVars, scenarioVars, systemVars, config, pixelblazeVars, op_input>>

SpecRetry == RetryInit /\ [][ConnectWithRetryCall]_vars

\* the one maximum of a reconnection delay the repository states
\* (test_daemon_mode.py line 34), in seconds
max_retry_delay == 60

Min(a, b) == IF a < b THEN a ELSE b

\* attempts that precede the first acknowledged one
FailedBefore(outcomes, n) == \A k \in 1..(n - 1) : outcomes[k] # "ack"

\* C14: a connect_with_retry cycle makes at most max_retries attempts, is
\* connected at the first attempt whose reply carries an acknowledgement,
\* waits base delay x 2^attempt, capped at a maximum, between failed attempt
\* number attempt and the next one, and after the last failed attempt
\* returns False instead of raising.
C14_RetryWithCappedBackoff ==
    op_output.op = "connect_with_retry" =>
        LET call == op_output.call
            outcomes == op_output.outcomes
            acked == \E k \in DOMAIN outcomes : outcomes[k] = "ack"
        IN  /\ call.attempts <= op_input.max_retries
            /\ ~call.raised
            /\ call.returned = acked
            /\ call.returned =>
                  outcomes[call.attempts] = "ack" /\ FailedBefore(outcomes, call.attempts)
            /\ ~call.returned => call.attempts = op_input.max_retries
            /\ Len(call.waits) = IF call.attempts = 0 THEN 0 ELSE call.attempts - 1
            /\ \A i \in 1..Len(call.waits) :
                  call.waits[i] = Min(op_input.retry_delay * 2^(i - 1),
                                      max_retry_delay * TimeUnitsPerSecond)

\* ===========================================================================
\* MultiPixelblazeController: connecting a device and loading its catalog
\* ===========================================================================
\* A text is a sequence of symbols: a pattern id is one symbol, every other
\* character is a symbol of its own.
TAB == "\t"
LF == "\n"
CR == "\r"
Whitespace == {" ", TAB, LF, CR}

\* line 716: data.startswith("{")
StartsWithBrace(data) == Len(data) > 0 /\ data[1] = "{"

\* a reader for which only a newline ends the list
EndsWithLineFeedOnly(data) == Len(data) > 0 /\ data[Len(data)] = LF

\* line 723: data.endswith("\n") or data.endswith("\r")
EndsWithLineEnding(data) == Len(data) > 0 /\ data[Len(data)] \in {LF, CR}

\* an inbound frame: its text, and what json.loads makes of it (is_json is
\* FALSE when json.loads raises)
TextFrame(text) == [text |-> text, is_json |-> FALSE, parsed |-> EmptyDict]
JsonFrame(parsed) == [text |-> <<"{", "}">>, is_json |-> TRUE, parsed |-> parsed]

\* lines 706-727: the receive loop over the frames the device delivers after
\* listPrograms, from frame number i on; recv times out and raises once the
\* frames are used up
RECURSIVE ReceiveLoop(_, _, _)
ReceiveLoop(frames, i, pattern_list_text) ==
    IF i > Len(frames)
    THEN [text |-> pattern_list_text, received |-> Len(frames), timed_out |-> TRUE]
    ELSE IF StartsWithBrace(frames[i].text)
    THEN ReceiveLoop(frames, i + 1, pattern_list_text)
    ELSE IF EndsWithLineEnding(frames[i].text)
    THEN [text |-> pattern_list_text \o frames[i].text, received |-> i,
          timed_out |-> FALSE]
    ELSE ReceiveLoop(frames, i + 1, pattern_list_text \o frames[i].text)

\* str.splitlines(): lines end at \n, \r or \r\n; no empty last line
RECURSIVE SplitLinesFrom(_, _, _)
SplitLinesFrom(text, i, line) ==
    IF i > Len(text) THEN (IF line = <<>> THEN <<>> ELSE <<line>>)
    ELSE IF text[i] = CR /\ i < Len(text) /\ text[i + 1] = LF
    THEN <<line>> \o SplitLinesFrom(text, i + 2, <<>>)
    ELSE IF text[i] \in {LF, CR}
    THEN <<line>> \o SplitLinesFrom(text, i + 1, <<>>)
    ELSE SplitLinesFrom(text, i + 1, Append(line, text[i]))

SplitLines(text) == SplitLinesFrom(text, 1, <<>>)

\* line 732: line.strip() and '\t' in line
IsPatternLine(line) ==
    /\ \E i \in 1..Len(line) : line[i] \notin Whitespace
    /\ \E i \in 1..Len(line) : line[i] = TAB

FirstTab(line) == CHOOSE i \in 1..Len(line) :
                    line[i] = TAB /\ \A j \in 1..(i - 1) : line[j] # TAB

\* the string made of the symbols before the first tab
IdOf(symbols) == IF symbols = <<>> THEN "" ELSE symbols[1]

\* line 733: line.split('\t', 1)
SplitAtFirstTab(line) ==
    <<IdOf(SubSeq(line, 1, FirstTab(line) - 1)),
      SubSeq(line, FirstTab(line) + 1, Len(line))>>

\* line 734: device.patterns[pattern_id] = pattern_name on a dict in insertion
\* order
DictSet(patterns, pattern_id, pattern_name) ==
    IF \E i \in 1..Len(patterns) : patterns[i][1] = pattern_id
    THEN [i \in 1..Len(patterns) |->
            IF patterns[i][1] = pattern_id THEN <<pattern_id, pattern_name>>
            ELSE patterns[i]]
    ELSE Append(patterns, <<pattern_id, pattern_name>>)

RECURSIVE ParseLines(_, _, _)
ParseLines(lines, i, patterns) ==
    IF i > Len(lines) THEN patterns
    ELSE IF IsPatternLine(lines[i])
    THEN ParseLines(lines, i + 1,
                    DictSet(patterns, SplitAtFirstTab(lines[i])[1],
                            SplitAtFirstTab(lines[i])[2]))
    ELSE ParseLines(lines, i + 1, patterns)

\* a parse that adds to the catalog the device already has
ParsePatternListKeep(previous, pattern_list_text) ==
    ParseLines(SplitLines(pattern_list_text), 1, previous)

\* lines 729-734: the catalog starts empty whatever it held before
ParsePatternList(previous, pattern_list_text) ==
    ParseLines(SplitLines(pattern_list_text), 1, <<>>)

\* lines 699-739: _load_device_patterns; the frames not received stay queued
LoadDevicePatterns(device, frames) ==
    LET loop == ReceiveLoop(frames, 1, <<>>)
    IN  [device |-> [device EXCEPT !.patterns = ParsePatternList(@, loop.text)],
         received |-> loop.received,
         timed_out |-> loop.timed_out,
         queued |-> SubSeq(frames, loop.received + 1, Len(frames))]

\* lines 741-753: _load_device_state; recv returns the next inbound frame, or
\* raises when there is none
LoadDeviceState(device, inbound) ==
    IF inbound # <<>> /\ inbound[1].is_json /\ "vars" \in DOMAIN inbound[1].parsed
    THEN [device EXCEPT !.variables = inbound[1].parsed["vars"]]
    ELSE device

\* lines 517-527 and 664: a PixelblazeDevice as it is created
NewDevice ==
    [connected |-> FALSE, patterns |-> <<>>, active_pattern |-> "None",
     variables |-> EmptyDict]

\* lines 674-697: _connect_device on a new device. script.ping is how the
\* ping ends, script.list_reply the frames the device delivers after
\* listPrograms and script.vars_reply those it delivers after getVars. The
\* log lists the requests sent and the frames waited for, in order.
ConnectDevice(script) ==
    IF script.ping # "ack"
    THEN [returned |-> FALSE, device |-> NewDevice, log |-> <<"ping">>,
          received |-> 0, timed_out |-> FALSE]
    ELSE LET loaded == LoadDevicePatterns([NewDevice EXCEPT !.connected = TRUE],
                                          script.list_reply)
             inbound == loaded.queued \o script.vars_reply
             recvs == loaded.received + (IF loaded.timed_out THEN 1 ELSE 0)
         IN  [returned |-> TRUE,
              device |-> LoadDeviceState(loaded.device, inbound),
              log |-> <<"ping", "listPrograms">> \o [i \in 1..recvs |-> "recv"]
                      \o <<"getVars", "recv">>,
              received |-> loaded.received,
              timed_out |-> loaded.timed_out]

\* dict[key] = value on a dict that may not hold key yet
Extend(dict, key, value) ==
    [k \in DOMAIN dict \cup {key} |-> IF k = key THEN value ELSE dict[k]]

\* the texts a Pixelblaze answers listPrograms with
Line(pattern_id, pattern_name) == <<pattern_id, TAB>> \o pattern_name
ScenarioCText == Line("AB12CD34", Name_sparkfire) \o <<LF>>
                 \o Line("EF56GH78", Name_rainbow) \o <<LF>>
StatusFrame == JsonFrame([k \in {"fps"} |-> 30])

ListReplies ==
    {<<>>,
     <<TextFrame(ScenarioCText)>>,
     <<StatusFrame, TextFrame(ScenarioCText)>>,
     <<TextFrame(Line("AB12CD34", Name_sparkfire) \o <<LF>>),
       TextFrame(Line("EF56GH78", Name_rainbow) \o <<LF>>)>>,
     <<TextFrame(Line("AB12CD34", <<"s", "p", "a", "r", "k">>)), StatusFrame,
       TextFrame(<<"f", "i", "r", "e", CR, LF>> \o Line("EF56GH78", Name_rainbow)
                 \o <<LF>>)>>,
     <<TextFrame(Line("AB12CD34", Name_sparkfire) \o <<CR>>),
       TextFrame(Line("EF56GH78", Name_rainbow) \o <<LF>>)>>,
     <<TextFrame(Line("AB12CD34", Name_sparkfire))>>,
     <<TextFrame(<<"n", "o", " ", "t", "a", "b", LF, LF>>
                 \o Line("AB12CD34", Name_rainbow) \o <<LF>>
                 \o Line("AB12CD34", Name_sparkfire) \o <<LF>>)>>}

\* the variables a Pixelblaze reports
DeviceVars == [k \in {"speed", "hue"} |-> Half]
VarsFrame == JsonFrame([k \in {"vars"} |-> DeviceVars])
VarsReplies == {<<>>, <<VarsFrame>>, <<StatusFrame, VarsFrame>>, <<StatusFrame>>}

ConnectScripts == [ping : AttemptOutcomes, list_reply : ListReplies,
                   vars_reply : VarsReplies]

\* lines 663-669: discover_and_connect takes the next discovered address
ConnectNextDevice ==
    /\ scenario_tick < Len(DiscoveryOrder)
    /\ \E script \in ConnectScripts :
          LET ip == DiscoveryOrder[scenario_tick + 1]
              call == ConnectDevice(script)
          IN  /\ op_input' = [op |-> "_connect_device", ip |-> ip, script |-> script]
              /\ op_output' = [op |-> "_connect_device", returned |-> call.returned,
                               log |-> IF call.returned
                                       THEN Append(call.log, "register") ELSE call.log,
                               received |-> call.received,
                               timed_out |-> call.timed_out]
              /\ IF call.returned
                 THEN /\ devices' = Extend(devices, ip, call.device)
                      /\ device_order' = Append(device_order, ip)
                      /\ link_up' = Extend(link_up, ip, TRUE)
                      /\ wire' = Extend(wire, ip, NoMessages)
                 ELSE UNCHANGED <<devices, device_order, link_up, wire>>
    /\ scenario_tick' = scenario_tick + 1
    /\ UNCHANGED <<eegVars, scenario_start, systemVars, config, pb_last_brain_state,
                   previous_color_mood, color_mood_smoothing, last_attention,
                   last_relaxation, callVars>>

\* discovery on a controller that has no device yet (lines 651-672)
SpecConnect == SystemInit /\ [][ConnectNextDevice]_vars

\* position of a request in the log of a connect
IndexOf(log, entry) == CHOOSE i \in 1..Len(log) : log[i] = entry
HoldsVars(frame) == frame.is_json /\ "vars" \in DOMAIN frame.parsed

\* C15: on entering Connected the link first requests the pattern list and
\* reads its frames, and only then requests the variable state; when the
\* device answers getVars with {"vars": V} the device's variables are V once
\* the connect completes; and the device is in the registry only after both
\* steps, never for a connect that failed.
C15_CatalogThenVariablesThenRegistry ==
    op_output.op = "_connect_device" =>
        LET ip == op_input.ip
            log == op_output.log
            vars_reply == op_input.script.vars_reply
        IN  /\ ~op_output.returned => "register" \notin {log[i] : i \in 1..Len(log)}
            /\ op_output.returned =>
                  /\ ip \in DOMAIN devices
                  /\ IndexOf(log, "listPrograms") < IndexOf(log, "getVars")
                  /\ \A i \in 1..Len(log) :
                        (log[i] = "recv" /\ i < IndexOf(log, "getVars"))
                            => i > IndexOf(log, "listPrograms")
                  /\ IndexOf(log, "getVars") < IndexOf(log, "register")
                  /\ \A i \in 1..Len(vars_reply) :
                        HoldsVars(vars_reply[i])
                            => devices[ip].variables = vars_reply[i].parsed["vars"]

\* the text of the frames 1..n that do not start with "{"
RECURSIVE ConcatText(_, _)
ConcatText(frames, n) ==
    IF n = 0 THEN <<>>
    ELSE IF frames[n].text # <<>> /\ frames[n].text[1] = "{" THEN ConcatText(frames, n - 1)
    ELSE ConcatText(frames, n - 1) \o frames[n].text

\* the frames that end the list: not JSON, last character a line ending
EndOfListFrames(frames) ==
    {i \in 1..Len(frames) :
        /\ frames[i].text # <<>>
        /\ frames[i].text[1] # "{"
        /\ frames[i].text[Len(frames[i].text)] \in {LF, CR}}

\* C16: during catalog load the client reads the inbound frames in order,
\* discards every frame that starts with "{", concatenates the others and
\* stops reading exactly at the first non-JSON frame that ends with a line
\* ending; the catalog is built from the non-JSON frames up to and including
\* that one.
C16_ReadsToEndOfList ==
    (op_output.op = "_connect_device" /\ op_output.returned) =>
        LET frames == op_input.script.list_reply
            ends == EndOfListFrames(frames)
            stop == IF ends = {} THEN Len(frames)
                    ELSE CHOOSE i \in ends : \A j \in ends : i <= j
        IN  /\ op_output.received = stop
            /\ op_output.timed_out = (ends = {})
            /\ devices[op_input.ip].patterns = ParsePatternList(<<>>, ConcatText(frames, stop))

C16_Witness ==
    /\ op_output.op = "_connect_device" /\ op_output.returned
    /\ op_output.received = 1
    /\ Len(op_input.script.list_reply) = 2
    /\ op_input.script.list_reply[1].text[Len(op_input.script.list_reply[1].text)] = CR
    /\ Len(devices[op_input.ip].patterns) = 1

\* ------------------------------------------------------- the catalog parse
\* frames of a pattern list, whole and in pieces, with status frames between
CatalogFrames ==
    {TextFrame(ScenarioCText), StatusFrame,
     TextFrame(Line("AB12CD34", Name_sparkfire) \o <<LF>>),
     TextFrame(Line("EF56GH78", Name_rainbow) \o <<LF>>),
     TextFrame(Line("IJ90KL12", <<"s", "l", "o", "w">>)),
     TextFrame(<<"n", "o", " ", "t", "a", "b", CR, LF>>
               \o Line("AB12CD34", Name_slow_waves) \o <<CR>>)}
CatalogReplies ==
    ListReplies \cup {<<f>> : f \in CatalogFrames}
                \cup {<<f, g>> : f \in CatalogFrames, g \in CatalogFrames}

\* a device with some catalog, and the frames its next catalog loads receive
CatalogInit ==
    /\ ClassifierInit /\ ScenarioInit /\ RunningInit
    /\ ControllerInit(NoDevices, NoOrder, color_mood_smoothing_default)
    /\ \E frames \in CatalogReplies, previous \in CatalogOptions :
          /\ op_input = [op |-> "_load_device_patterns", frames |-> frames,
                         previous |-> previous]
          /\ op_output = [op |-> "PixelblazeDevice", loads |-> 0,
                          device |-> [NewDevice EXCEPT !.connected = TRUE,
                                                       !.patterns = previous],
                          first |-> previous]

\* lines 699-739 on that device
LoadDevicePatternsCall ==
    /\ op_output.loads < MaxLoads
    /\ LET loaded == LoadDevicePatterns(op_output.device, op_input.frames)
       IN  op_output' = [op |-> "_load_device_patterns", loads |-> op_output.loads + 1,
                         device |-> loaded.device,
                         first |-> IF op_output.loads = 0 THEN loaded.device.patterns
                                   ELSE op_output.first]
    /\ UNCHANGED <<eegVars, scenarioVars, systemVars, config, pixelblazeVars, op_input>>

SpecCatalog == CatalogInit /\ [][LoadDevicePatternsCall]_vars

\* the text a catalog load has received: the non-JSON frames up to the first
\* one that ends the list
ReceivedText(frames) ==
    LET ends == EndOfListFrames(frames)
    IN  ConcatText(frames, IF ends = {} THEN Len(frames)
                           ELSE CHOOSE i \in ends : \A j \in ends : i <= j)

\* the lines '<id> TAB <name>' of a text as pairs <<id, name>>, the last line
\* of an id standing for it
MappingOfText(text) ==
    LET lines == SplitLines(text)
        tabbed == {i \in 1..Len(lines) : \E k \in 1..Len(lines[i]) : lines[i][k] = TAB}
        id(i) == SplitAtFirstTab(lines[i])[1]
    IN  {SplitAtFirstTab(lines[i]) :
            i \in {n \in tabbed : \A m \in tabbed : m > n => id(m) # id(n)}}

MappingOfCatalog(patterns) == {patterns[i] : i \in 1..Len(patterns)}

ScenarioCCatalog == ParsePatternList(<<>>, ScenarioCText)

\* names a pattern is asked for by
SwitchNames == {<<"f", "i", "r", "e">>, <<"R", "A", "I", "N">>, <<"r">>,
                <<"S", "l", "o", "w">>,
                <<"n", "o", "n", "e", "x", "i", "s", "t", "e", "n", "t">>}

\* a connected device with some catalog and some active pattern
SwitchInit ==
    /\ ClassifierInit /\ ScenarioInit /\ RunningInit
    /\ ControllerInit(NoDevices, NoOrder, color_mood_smoothing_default)
    /\ op_input = NoOp
    /\ \E catalog \in CatalogOptions \cup {ScenarioCCatalog},
          active_pattern \in {"None", "EF56GH78"} :
          op_output = [op |-> "PixelblazeDevice",
                       device |-> [ConnectedDevice(catalog) EXCEPT
                                      !.active_pattern = active_pattern]]

\* lines 872-874 and 845-870: _update_device(device, pattern_name, {}) on a
\* connected device, as switch_device_pattern calls it (line 2021)
UpdateDeviceCall ==
    /\ scenario_tick < MaxSwitches
    /\ op_output.device.connected
    /\ \E pattern_name \in SwitchNames, fail_at \in 0..2 :
          LET call == UpdateDeviceContinuous(op_output.device, pattern_name,
                                             EmptyDict, fail_at)
          IN  /\ op_input' = [op |-> "_update_device", pattern_name |-> pattern_name,
                              fail_at |-> fail_at, device |-> op_output.device]
              /\ op_output' = [op |-> "_update_device", device |-> call.device,
                               sent |-> call.sent, raised |-> call.raised]
    /\ scenario_tick' = scenario_tick + 1
    /\ UNCHANGED <<eegVars, scenario_start, systemVars, config, pixelblazeVars>>

SpecSwitch == SwitchInit /\ [][UpdateDeviceCall]_vars

\* the catalog entries whose name contains the asked name, letter case aside
MatchingEntries(patterns, pattern_name) ==
    {i \in 1..Len(patterns) : Contains(Lower(patterns[i][2]), Lower(pattern_name))}

SwitchesSent(sent) == {i \in 1..Len(sent) : sent[i].kind = "activeProgramId"}

ServedWithoutPattern ==
    {ip \in was_connected \ failed_now :
        MatchingEntries(devices[ip].patterns,
                        MappingFor(call_brain_state).pattern_name) = {}}

\* C19: on a dispatch that changes the state, a connected device whose
\* catalog is empty or holds no pattern matching the state's pattern name gets
\* no pattern switch, still gets that dispatch's setVars with its variables
\* recorded, and stays connected.
C19_MismatchSkipsSwitchOnly ==
    (dispatch_result = "returned" /\ call_changed) =>
        \A ip \in ServedWithoutPattern :
            /\ Len(wire[ip]) = 1
            /\ wire[ip][1].kind = "setVars"
            /\ DOMAIN wire[ip][1].vars = DOMAIN MappingFor(call_brain_state).variables
            /\ devices[ip].variables = wire[ip][1].vars
            /\ devices[ip].active_pattern = "None"
            /\ devices[ip].connected

C19_Witness ==
    /\ dispatch_result = "returned" /\ call_changed
    /\ \E ip \in ServedWithoutPattern :
          /\ devices[ip].patterns = CatalogOther
          /\ Len(wire[ip]) = 1 /\ devices[ip].connected
    /\ \E ip \in was_connected \ (failed_now \cup ServedWithoutPattern) :
          Len(wire[ip]) = 2

\* ------------------------------------------------- last known variables
\* C20: the variables of an update are merged into the device's recorded
\* variables only after the setVars send went through: when that send, or the
\* pattern switch before it, raises, the recorded variables are exactly those
\* of before the call; when it goes through they are the old ones updated
\* with the ones sent.
C20_MergeOnlyAfterSend ==
    [][\A ip \in DOMAIN devices :
          /\ ip \in failed_now' => devices'[ip].variables = devices[ip].variables
          /\ ip \in was_connected' \ failed_now' =>
                devices'[ip].variables =
                    DictUpdate(devices[ip].variables, wire'[ip][Len(wire'[ip])].vars)
          /\ ip \notin was_connected' => devices'[ip].variables = devices[ip].variables]_vars

\* a device whose setVars send raised after its pattern switch went out, and
\* which still holds the variables of the state dispatched before
C20_Witness ==
    /\ \E ip \in failed_now :
          /\ Len(wire[ip]) = 1
          /\ wire[ip][1].kind = "activeProgramId"
          /\ devices[ip].variables # EmptyDict
          /\ devices[ip].variables.hue # MappingFor(call_brain_state).variables.hue
    /\ \E ip \in was_connected \ failed_now :
          devices[ip].variables.hue = MappingFor(call_brain_state).variables.hue

\* ===========================================================================
\* RobustWebSocketController: commands (robust_websocket_controller.py)
\* ===========================================================================
\* what ws.recv() and json.loads give for one command: a JSON object with
\* entries, the empty object, the document null, a text that is no JSON
\* (json.loads raises), or no frame before the socket timeout (recv raises)
Replies == {"object", "empty_object", "null", "not_json", "timeout"}

\* a Python value: None, or a dict
PyNone == [is_none |-> TRUE, doc |-> EmptyDict]
PyDict(doc) == [is_none |-> FALSE, doc |-> doc]
Truthy(value) == ~value.is_none /\ DOMAIN value.doc # {}

\* a tri-state result: None, True, False
ResultNone == "None"
ResultTrue == "True"
ResultFalse == "False"

\* lines 96-107: ensure_connected on a controller whose socket is connected
\* or not; outcomes are those of the reconnection cycle it may start
EnsureConnected(ws_connected, max_retries, retry_delay, outcomes) ==
    IF ~ws_connected
    THEN ConnectWithRetry(max_retries, retry_delay, outcomes).returned
    ELSE TRUE

\* lines 139-159: send_command with the connection as it is, the send raising
\* or not, and the reply
SendCommand(connected, send_raises, reply) ==
    IF ~connected
    THEN [response |-> PyNone, sent |-> FALSE, received |-> FALSE]
    ELSE IF send_raises
    THEN [response |-> PyNone, sent |-> FALSE, received |-> FALSE]
    ELSE IF reply = "timeout"
    THEN [response |-> PyNone, sent |-> TRUE, received |-> FALSE]
    ELSE IF reply = "not_json"
    THEN [response |-> PyNone, sent |-> TRUE, received |-> TRUE]
    ELSE IF reply = "null"
    THEN [response |-> PyNone, sent |-> TRUE, received |-> TRUE]
    ELSE IF reply = "empty_object"
    THEN [response |-> PyDict(EmptyDict), sent |-> TRUE, received |-> TRUE]
    ELSE [response |-> PyDict([ack |-> 1]), sent |-> TRUE, received |-> TRUE]

\* lines 112-137: safe_operation around a function that gives result; the
\* functions passed here catch every exception themselves
SafeOperation(connected, result) == IF ~connected THEN ResultNone ELSE result

\* lines 225-246: set_variables
SetVariables(connected, send_raises, reply, last_known_state, variables) ==
    LET command == SendCommand(connected, send_raises, reply)
        set_vars == IF Truthy(command.response) THEN ResultTrue ELSE ResultFalse
        result == SafeOperation(connected, set_vars)
    IN  [returned |-> result # ResultNone,
         sent |-> command.sent, received |-> command.received,
         response |-> command.response,
         last_known_state |-> IF connected /\ Truthy(command.response)
                              THEN DictUpdate(last_known_state, variables)
                              ELSE last_known_state]

\* lines 191-208: set_active_pattern
SetActivePattern(connected, send_raises, reply, last_known_state) ==
    LET command == SendCommand(connected, send_raises, reply)
        set_pattern == IF ~command.response.is_none THEN ResultTrue ELSE ResultFalse
        result == SafeOperation(connected, set_pattern)
    IN  [returned |-> result # ResultNone,
         sent |-> command.sent, received |-> command.received,
         response |-> command.response,
         last_known_state |-> last_known_state]

\* line 27: max_retries = 3, retry_delay = 1.0
max_retries_default == 3
retry_delay_default == TimeUnitsPerSecond

CommandVariables == {[hue |-> Half], [hue |-> 0, speed |-> Scale]}

\* lines 27-48: a controller, its socket connected or lost, before a command
CommandInit ==
    /\ ClassifierInit /\ ScenarioInit /\ RunningInit
    /\ ControllerInit(NoDevices, NoOrder, color_mood_smoothing_default)
    /\ \E ws_connected \in BOOLEAN, last_known_state \in {EmptyDict, [hue |-> Scale]} :
          op_input = [op |-> "RobustWebSocketController", ws_connected |-> ws_connected,
                      last_known_state |-> last_known_state]
    /\ op_output = NoOp

\* one set_variables or set_active_pattern call
CommandCall ==
    /\ op_output = NoOp
    /\ \E outcomes \in [1..max_retries_default -> AttemptOutcomes],
          send_raises \in BOOLEAN, reply \in Replies,
          variables \in CommandVariables,
          command \in {"set_variables", "set_active_pattern"} :
          LET connected == EnsureConnected(op_input.ws_connected, max_retries_default,
                                           retry_delay_default, outcomes)
          IN  op_output' =
                [op |-> command, outcomes |-> outcomes, connected |-> connected,
                 send_raises |-> send_raises, reply |-> reply, variables |-> variables,
                 call |-> IF command = "set_variables"
                          THEN SetVariables(connected, send_raises, reply,
                                            op_input.last_known_state, variables)
                          ELSE SetActivePattern(connected, send_raises, reply,
                                                op_input.last_known_state)]
    /\ UNCHANGED <<eegVars, scenarioVars, systemVars, config, pixelblazeVars, op_input>>

SpecCommand == CommandInit /\ [][CommandCall]_vars

\* C21: set_variables and set_active_pattern return True only if the command
\* was sent and a response was received, and False in every other case (no
\* connection, a send or receive error, an empty or missing response).
C21_TrueOnlyWhenAnswered ==
    op_output.op \in {"set_variables", "set_active_pattern"} =>
        (op_output.call.returned <=>
            /\ op_output.call.sent
            /\ op_output.call.received
            /\ Truthy(op_output.call.response))

\* ===========================================================================
\* Runtime configuration: POST /api/update_config
\* ===========================================================================
\* parameter names a request may carry: tunables of valid_params, a field of
\* MindShowConfig that is not in valid_params, and a name that is no field
RequestParameters == {"color_mood_smoothing", "color_mood_intensity_scale",
                      "color_mood_attention_weight", "color_mood_relaxation_weight",
                      "attention_max", "update_rate", "no_such_parameter"}

\* values a request may carry: 0.0, 0.1, 0.8 and 1.5
RequestValues == {0, Scale \div 10, (8 * Scale) \div 10, (15 * Scale) \div 10}

\* the request dicts: request.get gives None for a key that is missing
Requests ==
    [parameter : RequestParameters, has_value : {TRUE}, value : RequestValues]
    \cup [parameter : {"color_mood_smoothing", "None"}, has_value : {FALSE}, value : {0}]

\* lines 944-979 and 1913-1930: the handler of POST /api/update_config and
\* MindShowIntegratedSystem.update_config behind it; the response goes to
\* op_output
ApiUpdateConfig(request) ==
    LET accepted == /\ request.parameter # "None"
                    /\ request.has_value
                    /\ request.parameter \in valid_params
                    /\ request.parameter \in DOMAIN config
    IN  /\ op_input' = [op |-> "update_config", request |-> request, config |-> config,
                        color_mood_smoothing |-> color_mood_smoothing]
        /\ op_output' = [op |-> "update_config", success |-> accepted]
        /\ config' = IF accepted THEN [config EXCEPT ![request.parameter] = request.value]
                     ELSE config
        /\ color_mood_smoothing' =
              IF accepted /\ request.parameter \in ControllerAttributes
              THEN request.value ELSE color_mood_smoothing
        /\ UNCHANGED <<pb_last_brain_state, previous_color_mood, last_attention,
                       last_relaxation, devices, device_order>>
        /\ UNCHANGED <<eegVars, scenario_start, systemVars, networkVars, callVars>>

\* brain_data of the ticks between two configuration requests
ConfigTickInputs == {BrainDataFull((8 * Scale) \div 10, (2 * Scale) \div 10),
                     BrainDataFull((2 * Scale) \div 10, (9 * Scale) \div 10)}

\* a configuration request from the dashboard
ConfigRequest ==
    /\ scenario_tick < MaxConfigSteps
    /\ \E request \in Requests : ApiUpdateConfig(request)
    /\ scenario_tick' = scenario_tick + 1

\* lines 755-843: the next update_from_brain_state of the running loop
ConfigMoodTick ==
    /\ scenario_tick < MaxConfigSteps
    /\ \E brain_data \in ConfigTickInputs :
          /\ UpdateFromBrainState("neutral", brain_data, NoDrop)
          /\ op_input' = [op |-> "update_from_brain_state", brain_data |-> brain_data,
                          previous_color_mood |-> previous_color_mood]
    /\ op_output' = [op |-> "update_from_brain_state"]
    /\ scenario_tick' = scenario_tick + 1
    /\ UNCHANGED <<eegVars, scenario_start, systemVars>>

\* the running system with the dashboard changing tunables between ticks
SpecConfig == SystemInit /\ [][ConfigRequest \/ ConfigMoodTick]_vars

\* the range of a tunable: a smoothing factor in (0, 1], a normalization
\* maximum above its minimum
InRange(cfg, parameter, value) ==
    /\ parameter = "color_mood_smoothing" => (0 < value /\ value <= Scale)
    /\ parameter = "attention_max" => value > cfg.attention_min
    /\ parameter = "relaxation_max" => value > cfg.relaxation_min
    /\ parameter = "attention_min" => value < cfg.attention_max
    /\ parameter = "relaxation_min" => value < cfg.relaxation_max

\* C22: a configuration update that names an unknown tunable or carries an
\* out-of-range value is rejected: the call reports failure and the
\* configuration, the controller's smoothing factor included, is as before.
C22_BadUpdateRejected ==
    op_output.op = "update_config" =>
        LET request == op_input.request
            bad == \/ request.parameter \notin valid_params
                   \/ ~request.has_value
                   \/ ~InRange(op_input.config, request.parameter, request.value)
        IN  bad => /\ ~op_output.success
                   /\ config = op_input.config
                   /\ color_mood_smoothing = op_input.color_mood_smoothing

\* ------------------------------------------------ tunables and the next tick
\* lines 773-795 with the tunables of a configuration in place of the
\* controller's own copies
ConfiguredColorMood(cfg, attention, relaxation) ==
    LET attention_contribution == Mul(attention - Half, 0 - cfg.color_mood_attention_weight)
        relaxation_contribution == Mul(relaxation - Half, cfg.color_mood_relaxation_weight)
        engagement_level == RoundDiv(attention + relaxation, 2)
        intensity == cfg.color_mood_intensity_scale
                     + Mul(engagement_level, Scale - cfg.color_mood_intensity_scale)
    IN  Ease(Clamp01(Half + Mul(attention_contribution + relaxation_contribution,
                                intensity)))

\* C23: after a runtime update of a mood tunable (smoothing factor, intensity
\* scale, attention weight, relaxation weight) the next
\* update_from_brain_state computes the mood with the configured values.
C23_NextTickUsesNewTunable ==
    op_output.op = "update_from_brain_state" =>
        previous_color_mood =
            Smooth(config.color_mood_smoothing,
                   ConfiguredColorMood(config, op_input.brain_data["attention"],
                                       op_input.brain_data["relaxation"]),
                   op_input.previous_color_mood)

\* ===========================================================================
\* PixelblazeDiscovery
\* ===========================================================================
\* what a probed host does: whether create_connection is accepted, refused or
\* runs into the timeout, whether ws.send raises, and what ws.recv gives: a
\* JSON object with some keys, a JSON number or null, a text that is no JSON,
\* a closed connection, or nothing before the timeout
ProbeKeys == {"ack", "fps", "name"}
ProbeReplies ==
    [kind : {"object"}, keys : SUBSET ProbeKeys]
    \cup [kind : {"number", "null", "not_json", "closed", "timeout"}, keys : {{}}]
Probes == [connect : {"accepted", "refused", "timeout"}, send_raises : BOOLEAN,
           reply : ProbeReplies]

\* a probe that takes only an acknowledgement for an answer
IsPixelblazeAckOnly(probe) ==
    /\ probe.connect = "accepted"
    /\ ~probe.send_raises
    /\ probe.reply.kind = "object"
    /\ "ack" \in probe.reply.keys

\* lines 584-598: _is_pixelblaze; every exception (refused or timed-out
\* connection, failed send, recv timeout or close, json.loads on a text that
\* is no JSON, "in" on a number or None) ends in the bare except
IsPixelblaze(probe) ==
    IF probe.connect # "accepted" THEN FALSE
    ELSE IF probe.send_raises THEN FALSE
    ELSE IF probe.reply.kind \in {"closed", "timeout"} THEN FALSE
    ELSE IF probe.reply.kind = "not_json" THEN FALSE
    ELSE IF probe.reply.kind \in {"number", "null"} THEN FALSE
    ELSE "ack" \in probe.reply.keys \/ "fps" \in probe.reply.keys

\* a host about to be probed
ProbeInit ==
    /\ ClassifierInit /\ ScenarioInit /\ RunningInit
    /\ ControllerInit(NoDevices, NoOrder, color_mood_smoothing_default)
    /\ \E probe \in Probes : op_input = [op |-> "host", probe |-> probe]
    /\ op_output = NoOp

\* the probe of that host
IsPixelblazeCall ==
    /\ op_output = NoOp
    /\ op_output' = [op |-> "_is_pixelblaze", returned |-> IsPixelblaze(op_input.probe)]
    /\ UNCHANGED <<eegVars, scenarioVars, systemVars, config, pixelblazeVars, op_input>>

SpecProbe == ProbeInit /\ [][IsPixelblazeCall]_vars

probe_timeout == TimeUnitsPerSecond

\* the hosts of the scanned range: a device that answers at once, a device
\* that answers late, a host that answers without ack or fps, a host that
\* accepts and stays mute, a host that refuses, and a silent address
ObjectReply(keys) == [kind |-> "object", keys |-> keys]
NoReply == [kind |-> "timeout", keys |-> {}]
HostKinds ==
    {[probe |-> [connect |-> "accepted", send_raises |-> FALSE, reply |-> ObjectReply({"ack"})],
      latency |-> 1],
     [probe |-> [connect |-> "accepted", send_raises |-> FALSE, reply |-> ObjectReply({"fps"})],
      latency |-> 7],
     [probe |-> [connect |-> "accepted", send_raises |-> FALSE, reply |-> ObjectReply({"name"})],
      latency |-> 1],
     [probe |-> [connect |-> "accepted", send_raises |-> FALSE, reply |-> NoReply],
      latency |-> 1],
     [probe |-> [connect |-> "refused", send_raises |-> FALSE, reply |-> NoReply],
      latency |-> 0],
     [probe |-> [connect |-> "timeout", send_raises |-> FALSE, reply |-> NoReply],
      latency |-> 0]}

\* lines 587-598: how long _is_pixelblaze runs on a host: a connection that
\* times out takes the timeout, a reply that does not come takes the
\* connection latency and the timeout, an answer takes the latency
ProbeDuration(host) ==
    IF host.probe.connect = "timeout" THEN probe_timeout
    ELSE IF host.probe.connect = "refused" THEN host.latency
    ELSE IF host.probe.reply.kind = "timeout" THEN host.latency + probe_timeout
    ELSE host.latency

\* lines 556-560: one thread per host, all started before any is joined:
\* the time after the start at which the thread of each host ends
FinishTimes(hosts) == [i \in DOMAIN hosts |-> ProbeDuration(hosts[i])]

\* a join that waits for the thread without a timeout
JoinThreadUnbounded(finished_at, timeout, elapsed) ==
    IF finished_at <= elapsed THEN elapsed ELSE finished_at

\* lines 565-567: one thread is joined for what is left of the timeout, or
\* not at all when nothing is left; the result is the time after start_time
\* at which the join returns
JoinThread(finished_at, timeout, elapsed) ==
    LET remaining_time == timeout - elapsed
    IN  IF remaining_time > 0
        THEN IF finished_at <= elapsed THEN elapsed
             ELSE IF finished_at <= elapsed + remaining_time THEN finished_at
             ELSE elapsed + remaining_time
        ELSE elapsed

\* lines 563-567: the threads are joined in the order they were started
RECURSIVE JoinThreads(_, _, _, _)
JoinThreads(finish, timeout, i, elapsed) ==
    IF i > Len(finish) THEN elapsed
    ELSE JoinThreads(finish, timeout, i + 1, JoinThread(finish[i], timeout, elapsed))

\* lines 532-572: discover_devices(timeout) over the hosts of the range;
\* without a local address nothing is scanned. results holds the devices whose
\* thread has ended when the join loop ends
DiscoverDevices(has_local_ip, hosts, timeout) ==
    IF ~has_local_ip THEN [elapsed |-> 0, discovered |-> {}, started |-> 0]
    ELSE LET finish == FinishTimes(hosts)
             elapsed == JoinThreads(finish, timeout, 1, 0)
         IN  [elapsed |-> elapsed,
              discovered |-> {i \in DOMAIN hosts :
                                 IsPixelblaze(hosts[i].probe) /\ finish[i] <= elapsed},
              started |-> Len(hosts)]

\* overall timeouts: 0.5 s, the default of 5.0 s, the configured 10.0 s
DiscoveryTimeouts == {TimeUnitsPerSecond \div 2, 5 * TimeUnitsPerSecond,
                      10 * TimeUnitsPerSecond}

\* a network of NumHosts addresses about to be scanned
DiscoveryInit ==
    /\ ClassifierInit /\ ScenarioInit /\ RunningInit
    /\ ControllerInit(NoDevices, NoOrder, color_mood_smoothing_default)
    /\ \E hosts \in [1..NumHosts -> HostKinds], timeout \in DiscoveryTimeouts,
          has_local_ip \in BOOLEAN :
          op_input = [op |-> "network", hosts |-> hosts, timeout |-> timeout,
                      has_local_ip |-> has_local_ip]
    /\ op_output = NoOp

DiscoverDevicesCall ==
    /\ op_output = NoOp
    /\ op_output' = [op |-> "discover_devices",
                     call |-> DiscoverDevices(op_input.has_local_ip, op_input.hosts,
                                              op_input.timeout)]
    /\ UNCHANGED <<eegVars, scenarioVars, systemVars, config, pixelblazeVars, op_input>>

SpecDiscovery == DiscoveryInit /\ [][DiscoverDevicesCall]_vars

Responsive(hosts, timeout) ==
    {i \in DOMAIN hosts : IsPixelblaze(hosts[i].probe) /\ hosts[i].latency < timeout}

Silent(hosts) == {i \in DOMAIN hosts : hosts[i].probe.connect = "timeout"}

\* C25: discover_devices probes all hosts concurrently and returns no later
\* than the overall timeout after it starts, and no later than the slowest
\* single probe, however many hosts are silent; every device that answers
\* within the overall timeout is returned, and nothing that is no device.
C25_DiscoveryTerminates ==
    op_output.op = "discover_devices" =>
        LET hosts == op_input.hosts
            call == op_output.call
        IN  /\ call.elapsed <= op_input.timeout
            /\ call.elapsed = 0 \/ \E i \in DOMAIN hosts : call.elapsed <= ProbeDuration(hosts[i])
            /\ call.started \in {0, Len(hosts)}
            /\ op_input.has_local_ip =>
                  /\ Responsive(hosts, op_input.timeout) \subseteq call.discovered
                  /\ \A i \in call.discovered : IsPixelblaze(hosts[i].probe)

\* two devices that answer among silent addresses, all of them returned after
\* one probe timeout
C25_Witness ==
    /\ op_output.op = "discover_devices"
    /\ Cardinality(Silent(op_input.hosts)) = NumHosts - 2
    /\ Cardinality(op_output.call.discovered) = 2
    /\ op_output.call.elapsed = probe_timeout
    /\ op_input.timeout > probe_timeout

\* ---------------------------------------------- discover_and_connect, whole
\* addresses discovery may return, in any order (the order threads ended in)
HostAddresses == {"192.168.0.11", "192.168.0.12", "192.168.0.13"}
DiscoveredLists ==
    {ips \in UNION {[1..n -> HostAddresses] : n \in 0..Cardinality(HostAddresses)} :
        \A i \in DOMAIN ips, j \in DOMAIN ips : i # j => ips[i] # ips[j]}

\* line 78: max_controllers, 4 by default, and smaller settings
max_controllers_default == 4
MaxControllers == {1, 2, max_controllers_default}

\* a slice that keeps every discovered address
LimitToMaxControllersAll(discovered_ips, max_controllers) == discovered_ips

\* line 660: discovered_ips[:max_controllers]
LimitToMaxControllers(discovered_ips, max_controllers) ==
    SubSeq(discovered_ips, 1, Min(max_controllers, Len(discovered_ips)))

\* a device that answers listPrograms and getVars as in Scenario C, and whose
\* ping ends in any way
PlainScripts == [ping : AttemptOutcomes, list_reply : {<<TextFrame(ScenarioCText)>>},
                 vars_reply : {<<VarsFrame>>}]

\* line 653: discover_devices has returned; the loop of lines 662-669 is at
\* its first address
DiscoverAndConnectInit ==
    /\ ClassifierInit /\ ScenarioInit /\ RunningInit
    /\ ControllerInit(NoDevices, NoOrder, color_mood_smoothing_default)
    /\ \E discovered_ips \in DiscoveredLists, max_controllers \in MaxControllers :
          op_input = [op |-> "discover_and_connect", discovered_ips |-> discovered_ips,
                      max_controllers |-> max_controllers]
    /\ op_output = [op |-> "loop", connected_count |-> 0]

\* lines 663-669: one pass of the loop over the limited list
ConnectDiscovered ==
    LET ips == LimitToMaxControllers(op_input.discovered_ips, op_input.max_controllers)
    IN  /\ op_output.op = "loop"
        /\ scenario_tick < Len(ips)
        /\ \E script \in PlainScripts :
              LET ip == ips[scenario_tick + 1]
                  call == ConnectDevice(script)
              IN  IF call.returned
                  THEN /\ devices' = Extend(devices, ip, call.device)
                       /\ device_order' = Append(device_order, ip)
                       /\ link_up' = Extend(link_up, ip, TRUE)
                       /\ wire' = Extend(wire, ip, NoMessages)
                       /\ op_output' = [op_output EXCEPT !.connected_count = @ + 1]
                  ELSE UNCHANGED <<devices, device_order, link_up, wire, op_output>>
        /\ scenario_tick' = scenario_tick + 1
        /\ UNCHANGED <<eegVars, scenario_start, systemVars, config, pb_last_brain_state,
                       previous_color_mood, color_mood_smoothing, last_attention,
                       last_relaxation, callVars, op_input>>

\* lines 655-657 and 671-672: nothing discovered, or the loop is through
DiscoverAndConnectReturn ==
    LET ips == LimitToMaxControllers(op_input.discovered_ips, op_input.max_controllers)
    IN  /\ op_output.op = "loop"
        /\ scenario_tick = Len(ips)
        /\ op_output' = [op |-> "discover_and_connect",
                         returned |-> op_output.connected_count]
        /\ UNCHANGED <<eegVars, scenarioVars, systemVars, config, pixelblazeVars, op_input>>

SpecDiscoverAndConnect ==
    DiscoverAndConnectInit /\ [][ConnectDiscovered \/ DiscoverAndConnectReturn]_vars

SeqRange(seq) == {seq[i] : i \in DOMAIN seq}

\* C26: discover_and_connect connects to at most max_controllers of the
\* discovered hosts: the number of registered devices, and the count it
\* returns, never exceed max_controllers; each registered device is one entry
\* under its own address, a discovered one, and is connected.
C26_AtMostMaxControllers ==
    /\ Cardinality(DOMAIN devices) <= op_input.max_controllers
    /\ DOMAIN devices \subseteq SeqRange(op_input.discovered_ips)
    /\ Len(device_order) = Cardinality(DOMAIN devices)
    /\ SeqRange(device_order) = DOMAIN devices
    /\ \A ip \in DOMAIN devices : devices[ip].connected
    /\ op_output.op = "discover_and_connect" =>
          /\ op_output.returned <= op_input.max_controllers
          /\ op_output.returned = Cardinality(DOMAIN devices)

\* three hosts discovered, two allowed, both connected
C26_Witness ==
    /\ op_output.op = "discover_and_connect"
    /\ Len(op_input.discovered_ips) = 3
    /\ op_input.max_controllers = 2
    /\ op_output.returned = 2
    /\ DOMAIN devices = {op_input.discovered_ips[1], op_input.discovered_ips[2]}

\* ===========================================================================
\* MindShowIntegratedSystem: start and the processing loop
\* ===========================================================================
\* line 2048: the discovery attempts of start()
start_max_retries == 3

\* what one discover_and_connect of start() meets: no host at all, or one
\* host whose ping ends in any way
StartAttempts ==
    [discovered_ips : {<<>>}, script : {CHOOSE script \in PlainScripts : TRUE}]
    \cup [discovered_ips : {<<DiscoveryOrder[1]>>}, script : PlainScripts]

\* lines 651-672 on such an attempt: the count discover_and_connect returns
ConnectedBy(attempt) ==
    IF attempt.discovered_ips = <<>> THEN 0
    ELSE IF ConnectDevice(attempt.script).returned THEN 1 ELSE 0

\* a start that gives up when no device was connected
RunningAfterStartNeedsDevices(connected_devices) == connected_devices > 0

\* lines 2059-2068: without a device start() only logs a warning, creates the
\* tasks and sets self.running
RunningAfterStart(connected_devices) == TRUE

\* line 1895: the system as constructed, not started
StartInit ==
    /\ ClassifierInit /\ ScenarioInit /\ OpInit
    /\ ControllerInit(NoDevices, NoOrder, color_mood_smoothing_default)
    /\ running = FALSE

\* lines 2036-2068: start() up to the point where the loop task runs; the
\* discovery is repeated until an attempt connects a device (lines 2049-2057)
StartSystem ==
    /\ ~running /\ op_output = NoOp
    /\ \E attempts \in [1..start_max_retries -> StartAttempts] :
          LET connecting == {i \in DOMAIN attempts : ConnectedBy(attempts[i]) > 0}
              last == IF connecting = {} THEN start_max_retries
                      ELSE CHOOSE i \in connecting : \A j \in connecting : i <= j
              connected_devices == ConnectedBy(attempts[last])
              ip == DiscoveryOrder[1]
          IN  /\ op_input' = [op |-> "start", attempts |-> attempts]
              /\ op_output' = [op |-> "start", attempts_made |-> last,
                               connected_devices |-> connected_devices]
              /\ running' = RunningAfterStart(connected_devices)
              /\ IF connected_devices > 0
                 THEN /\ devices' = Extend(devices, ip,
                                           ConnectDevice(attempts[last].script).device)
                      /\ device_order' = Append(device_order, ip)
                      /\ link_up' = Extend(link_up, ip, TRUE)
                      /\ wire' = Extend(wire, ip, NoMessages)
                 ELSE UNCHANGED <<devices, device_order, link_up, wire>>
    /\ UNCHANGED <<eegVars, scenarioVars, config, pb_last_brain_state,
                   previous_color_mood, color_mood_smoothing, last_attention,
                   last_relaxation, callVars>>

\* lines 2101-2181: one pass of the loop of the started system
StartedLoopPass ==
    /\ running
    /\ scenario_tick < MaxLoopPasses
    /\ \E raw_data \in LoopInputs, dt \in {1, min_state_duration} :
          ProcessingLoopPass(raw_data, now + dt, [ip \in DOMAIN devices |-> 0])
    /\ scenario_tick' = scenario_tick + 1
    /\ UNCHANGED <<scenario_start, systemVars>>

SpecStart == StartInit /\ [][StartSystem \/ StartedLoopPass]_vars

\* C27: when start() connects no device the system runs on without LED
\* output: start() completes with the loop running, and every later pass
\* with EEG data still updates the classifier and the mood and ends without
\* an error although the registry is empty.
C27_NoLedMode ==
    /\ [](op_output # NoOp => running)
    /\ [][(running /\ DOMAIN devices = {} /\ scenario_tick' # scenario_tick) =>
            /\ dispatch_result' \in {"returned", "skipped"}
            /\ devices' = devices
            /\ op_output'.returned = "dict" =>
                  /\ now' > now
                  /\ eeg_last_brain_state' = op_output'.brain_state
                  /\ pb_last_brain_state' = op_output'.brain_state
                  /\ last_attention' = op_output'.attention
                  /\ last_relaxation' = op_output'.relaxation
                  /\ previous_color_mood' =
                        Smooth(color_mood_smoothing,
                               EasedColorMood(op_output'.attention, op_output'.relaxation),
                               previous_color_mood)
                  /\ dispatch_result' = "returned"]_vars

\* a started system without a device whose classifier and mood have moved
C27_Witness ==
    /\ running
    /\ DOMAIN devices = {}
    /\ dispatch_result = "returned"
    /\ eeg_last_brain_state = "engaged"
    /\ pb_last_brain_state = "engaged"
    /\ previous_color_mood # Half

\* ------------------------------------------------------ status and shutdown
\* lines 876-893: get_status, the counts and the per-device summary
GetStatus(registry, order, last_brain_state) ==
    [connected_devices |-> Cardinality({ip \in DOMAIN registry : registry[ip].connected}),
     total_devices |-> Cardinality(DOMAIN registry),
     devices |-> [i \in DOMAIN order |->
                    [ip |-> order[i],
                     connected |-> registry[order[i]].connected,
                     patterns_count |-> Len(registry[order[i]].patterns),
                     active_pattern |-> registry[order[i]].active_pattern,
                     variables |-> registry[order[i]].variables]],
     last_brain_state |-> last_brain_state]

\* a disconnect that closes the sockets and leaves the flags as they are
DisconnectAllKeepFlags(registry) ==
    [registry |-> registry, closed |-> DOMAIN registry]

\* lines 895-903: disconnect_all; every registered device holds the socket
\* _connect_device opened (line 678), so each is closed, whether or not
\* close() raises, and marked as not connected
DisconnectAll(registry) ==
    [registry |-> [ip \in DOMAIN registry |-> [registry[ip] EXCEPT !.connected = FALSE]],
     closed |-> DOMAIN registry]

\* lines 2193-2202: shutdown
Shutdown ==
    /\ running
    /\ running' = FALSE
    /\ LET call == DisconnectAll(devices)
       IN  /\ devices' = call.registry
           /\ op_output' = [op |-> "shutdown", closed |-> call.closed,
                            at_tick |-> scenario_tick]
    /\ op_input' = [op |-> "shutdown"]
    /\ wire' = [ip \in DOMAIN devices |-> NoMessages]
    /\ UNCHANGED <<eegVars, scenarioVars, config, pb_last_brain_state,
                   previous_color_mood, color_mood_smoothing, last_attention,
                   last_relaxation, device_order, link_up, callVars>>

\* dispatches before and after a shutdown
SpecShutdown == DispatchInit /\ [][DispatchTick \/ Shutdown]_vars

\* C28: the status reports as connected_devices the number of registered
\* devices marked connected and as total_devices the number of registered
\* devices; after shutdown every registered device's socket has been closed,
\* connected_devices is 0 and a later dispatch sends nothing to any device.
C28_StatusAndShutdown ==
    LET status == GetStatus(devices, device_order, pb_last_brain_state)
        marked == {i \in DOMAIN status.devices : status.devices[i].connected}
    IN  /\ status.connected_devices = Cardinality(marked)
        /\ status.total_devices = Len(device_order)
        /\ status.connected_devices <= status.total_devices
        /\ ~running =>
              /\ op_output.closed = DOMAIN devices
              /\ status.connected_devices = 0
              /\ \A ip \in DOMAIN devices : wire[ip] = NoMessages

\* a dispatch after the shutdown of a system that had served its devices
C28_Witness ==
    /\ ~running
    /\ scenario_tick > op_output.at_tick
    /\ op_output.at_tick > 0
    /\ dispatch_result = "returned"
    /\ \E ip \in DOMAIN devices : devices[ip].variables # EmptyDict

\* ===========================================================================
\* The event loop: tasks that write to the devices
\* ===========================================================================
\* One thread runs every coroutine (asyncio.run in main; the dashboard server
\* and the processing loop are tasks of the same loop). A task runs from one
\* await to the next without giving way. An update is a call of
\* _update_device_continuous waiting in the loop: [id, ip, pattern_name,
\* variables], and once it has started the messages it still has to send.

\* an update whose sends are awaited, so that it gives way between them
SuspendsBetweenSendsAwaited == TRUE

\* lines 859-866: websocket.send is a plain call of the websocket-client
\* socket; _update_device_continuous holds no await at all
SuspendsBetweenSends == FALSE

\* lines 1937-1940: the variables of a manual mood request
ManualVariables == [colorMoodBias |-> Half, intensity |-> Scale]

\* line 2019: device.patterns.get(pattern_id, "Unknown")
Name_Unknown == <<"U", "n", "k", "n", "o", "w", "n">>
PatternNameOf(patterns, pattern_id) ==
    IF \E i \in DOMAIN patterns : patterns[i][1] = pattern_id
    THEN patterns[CHOOSE i \in DOMAIN patterns : patterns[i][1] = pattern_id][2]
    ELSE Name_Unknown

NewUpdate(id, ip, pattern_name, variables) ==
    [id |-> id, ip |-> ip, pattern_name |-> pattern_name, variables |-> variables,
     started |-> FALSE, pending |-> NoMessages]

\* two connected devices with the full catalog, nothing waiting in the loop;
\* wire[ip] is all that was written to the socket of ip, each message under
\* the id of its update
EventLoopInit ==
    /\ ClassifierInit /\ ScenarioInit /\ RunningInit
    /\ ControllerInit([ip \in DeviceIPs |-> ConnectedDevice(CatalogFull)],
                      DiscoveryOrder, color_mood_smoothing_default)
    /\ op_input = NoOp
    /\ op_output = [op |-> "event_loop", updates |-> <<>>, created |-> 0]

ConnectedIPs == {i \in DOMAIN device_order : devices[device_order[i]].connected}

\* the updates gather is handed for the connected devices, in registry order
RECURSIVE UpdatesFor(_, _, _, _)
UpdatesFor(indexes, first_id, pattern_name, variables) ==
    IF indexes = {} THEN <<>>
    ELSE LET i == CHOOSE k \in indexes : \A j \in indexes : k <= j
         IN  <<NewUpdate(first_id, device_order[i], pattern_name, variables)>>
             \o UpdatesFor(indexes \ {i}, first_id + 1, pattern_name, variables)

Spawn(updates, what) ==
    /\ op_output.created + Len(updates) <= MaxUpdates
    /\ op_output' = [op_output EXCEPT !.updates = @ \o updates,
                                      !.created = @ + Len(updates)]
    /\ op_input' = [op |-> what]
    /\ UNCHANGED <<eegVars, scenarioVars, systemVars, config, pixelblazeVars>>

\* lines 833-843: update_from_brain_state on a changed state creates one
\* update per connected device and awaits them all
SpawnDispatch ==
    \E brain_state \in {"engaged", "relaxed"} :
        Spawn(UpdatesFor(ConnectedIPs, op_output.created + 1,
                         MappingFor(brain_state).pattern_name,
                         MappingFor(brain_state).variables),
              "update_from_brain_state")

\* lines 1942-1952: send_manual_mood does the same without a pattern
SpawnManualMood ==
    Spawn(UpdatesFor(ConnectedIPs, op_output.created + 1, "None", ManualVariables),
          "send_manual_mood")

\* lines 2016-2024: switch_device_pattern creates a task for one device
SpawnPatternSwitch ==
    \E ip \in DOMAIN devices, pattern_id \in {"AB12CD34", "EF56GH78"} :
        /\ devices[ip].connected
        /\ Spawn(<<NewUpdate(op_output.created + 1, ip,
                             PatternNameOf(devices[ip].patterns, pattern_id), EmptyDict)>>,
                 "switch_device_pattern")

Tagged(id, messages) == [i \in DOMAIN messages |-> [update |-> id, message |-> messages[i]]]

Without(updates, n) == [i \in 1..(Len(updates) - 1) |-> IF i < n THEN updates[i]
                                                        ELSE updates[i + 1]]

\* the loop runs one waiting update up to its next await, or to its end
RunUpdate ==
    \E n \in DOMAIN op_output.updates :
        LET update == op_output.updates[n]
            call == UpdateDeviceContinuous(devices[update.ip], update.pattern_name,
                                           update.variables, 0)
            messages == IF update.started THEN update.pending ELSE call.sent
            now_sent == IF SuspendsBetweenSends /\ messages # NoMessages
                        THEN <<messages[1]>> ELSE messages
            left == SubSeq(messages, Len(now_sent) + 1, Len(messages))
        IN  /\ wire' = [wire EXCEPT ![update.ip] = @ \o Tagged(update.id, now_sent)]
            /\ devices' = IF update.started THEN devices
                          ELSE [devices EXCEPT ![update.ip] = call.device]
            /\ op_output' = [op_output EXCEPT !.updates =
                                IF left = NoMessages THEN Without(@, n)
                                ELSE [@ EXCEPT ![n] = [update EXCEPT !.started = TRUE,
                                                                     !.pending = left]]]
            /\ op_input' = [op |-> "_update_device_continuous"]
            /\ UNCHANGED <<eegVars, scenarioVars, systemVars, config, pb_last_brain_state,
                           previous_color_mood, color_mood_smoothing, last_attention,
                           last_relaxation, device_order, link_up, callVars>>

SpecEventLoop ==
    EventLoopInit /\ [][SpawnDispatch \/ SpawnManualMood \/ SpawnPatternSwitch
                        \/ RunUpdate]_vars

\* C29: the sends to one device are serialized: no update is ever suspended
\* between two of its sends, so no two updates write to one socket at the
\* same time, and on every socket the messages of one update (its pattern
\* switch and its setVars) lie next to each other, never around a message of
\* another update.
C29_SendsSerialized ==
    /\ \A n \in DOMAIN op_output.updates : ~op_output.updates[n].started
    /\ \A ip \in DOMAIN wire :
          \A i \in DOMAIN wire[ip], k \in DOMAIN wire[ip] :
              (i < k /\ wire[ip][i].update = wire[ip][k].update) =>
                  \A j \in i..k : wire[ip][j].update = wire[ip][i].update

\* a dispatch update and another update have both written a pattern switch
\* and setVars to the same device
C29_Witness ==
    \E ip \in DOMAIN wire :
        /\ Len(wire[ip]) >= 4
        /\ wire[ip][1].update # wire[ip][3].update
        /\ wire[ip][1].message.kind = "activeProgramId"
        /\ wire[ip][2].message.kind = "setVars"
        /\ wire[ip][3].message.kind = "activeProgramId"
        /\ Len(op_output.updates) > 0

\* ===========================================================================
\* test_continuous_color_mood.py: the continuous colour mood demo
\* ===========================================================================
Name_phase_4b == <<"p", "h", "a", "s", "e", " ", "4", "b">>
Name_color_mood == <<"c", "o", "l", "o", "r", " ", "m", "o", "o", "d">>
Name_Phase4bPattern == <<"P", "h", "a", "s", "e", " ", "4", "b", " ",
                         "C", "o", "l", "o", "r", " ", "M", "o", "o", "d">>

\* catalogs of the devices the test may meet: the Phase 4b pattern alone, and
\* with patterns that carry the names of the state table
CatalogPhase4b == << <<"QR78ST90", Name_Phase4bPattern>> >>
CatalogPhase4bAndStates == CatalogPhase4b \o CatalogFull
TestCatalogs == {CatalogPhase4b, CatalogPhase4bAndStates, CatalogOther}

\* lines 34-39 of the test: the id of the first pattern whose name holds
\* 'phase 4b' or 'color mood', or "None"
IsPhase4bName(pname) ==
    Contains(Lower(pname), Name_phase_4b) \/ Contains(Lower(pname), Name_color_mood)
FindPhase4b(patterns) ==
    IF \E i \in DOMAIN patterns : IsPhase4bName(patterns[i][2])
    THEN CHOOSE i \in DOMAIN patterns :
            /\ IsPhase4bName(patterns[i][2])
            /\ \A j \in 1..(i - 1) : ~IsPhase4bName(patterns[j][2])
    ELSE 0

\* lines 18-25 of the test: a controller that has discovered and connected
TestInit ==
    /\ ClassifierInit /\ ScenarioInit /\ RunningInit /\ OpInit
    /\ \E catalogs \in [DeviceIPs -> TestCatalogs] :
          ControllerInit([ip \in DeviceIPs |-> ConnectedDevice(catalogs[ip])],
                         DiscoveryOrder, color_mood_smoothing_default)

\* lines 31-46 of the test: the first device is set to its Phase 4b pattern,
\* or the test ends when it has none
TestSetPhase4b ==
    /\ op_output = NoOp
    /\ LET ip == device_order[1]
           found == FindPhase4b(devices[ip].patterns)
       IN  IF found = 0
           THEN /\ op_output' = [op |-> "test", phase4b_id |-> "None"]
                /\ UNCHANGED <<devices, wire>>
           ELSE LET call == UpdateDeviceContinuous(devices[ip],
                                                   devices[ip].patterns[found][2],
                                                   EmptyDict, 0)
                IN  /\ op_output' = [op |-> "test",
                                     phase4b_id |-> devices[ip].patterns[found][1]]
                    /\ devices' = [devices EXCEPT ![ip] = call.device]
                    /\ wire' = [wire EXCEPT ![ip] = call.sent]
    /\ op_input' = [op |-> "test_continuous_color_mood"]
    /\ UNCHANGED <<eegVars, scenarioVars, systemVars, config, pb_last_brain_state,
                   previous_color_mood, color_mood_smoothing, last_attention,
                   last_relaxation, device_order, link_up, callVars>>

\* lines 54-84 of the test: one round of its loop; the scores go in under the
\* keys attention_score and relaxation_score, the state is any of the three
TestRound ==
    /\ op_output.op = "test" /\ op_output.phase4b_id # "None"
    /\ scenario_tick < MaxTestRounds
    /\ \E brain_state \in BrainStates, drop \in [DOMAIN devices -> 0..1] :
          UpdateFromBrainState(brain_state, BrainDataOtherKeys, drop)
    /\ scenario_tick' = scenario_tick + 1
    /\ UNCHANGED <<eegVars, scenario_start, systemVars, opVars>>

SpecColorMoodTest == TestInit /\ [][TestSetPhase4b \/ TestRound]_vars

\* C30: in the continuous colour mood demo a change of the brain_state
\* argument between two update_from_brain_state calls does not change the
\* device's active pattern: only variables are sent, no activeProgramId.
C30_NoPatternSwitchInContinuousMode ==
    (op_output.op = "test" /\ scenario_tick > 0) =>
        LET ip == device_order[1]
        IN  /\ devices[ip].active_pattern = op_output.phase4b_id
            /\ SwitchIndexes(ip) = {}

\* ------------------------------------------- the demo's simulated scores
\* lines 70-73 of the test: the scores go into brain_data under the keys
\* attention_score and relaxation_score
TestBrainData(attention, relaxation) ==
    [k \in {"attention_score", "relaxation_score"} |->
        IF k = "attention_score" THEN attention ELSE relaxation]

\* lines 76-81 of the test: the state the test derives from its scores
TestBrainState(attention, relaxation) ==
    IF attention > (75 * Scale) \div 100 THEN "engaged"
    ELSE IF relaxation > (75 * Scale) \div 100 THEN "relaxed"
    ELSE "neutral"

\* lines 58-67 of the test: 0.5 + 0.4 sin(..) at its crests, troughs and zero
TestScores == {<<(9 * Scale) \div 10, (1 * Scale) \div 10>>,
               <<(1 * Scale) \div 10, (9 * Scale) \div 10>>,
               <<Half, Half>>}

\* lines 54-92 of the test: one round of its loop with simulated scores;
\* op_input keeps the scores and whether every round so far had high
\* attention and low relaxation, or the reverse
TestScoreRound ==
    /\ op_output.op = "test" /\ op_output.phase4b_id # "None"
    /\ scenario_tick < MaxTestRounds
    /\ \E scores \in TestScores :
          /\ UpdateFromBrainState(TestBrainState(scores[1], scores[2]),
                                  TestBrainData(scores[1], scores[2]), NoDrop)
          /\ op_input' = [op |-> "test_round",
                          attention |-> scores[1], relaxation |-> scores[2],
                          all_focused |-> /\ scores[1] > scores[2]
                                          /\ (scenario_tick > 0 => op_input.all_focused),
                          all_calm |-> /\ scores[2] > scores[1]
                                       /\ (scenario_tick > 0 => op_input.all_calm)]
    /\ scenario_tick' = scenario_tick + 1
    /\ UNCHANGED <<eegVars, scenario_start, systemVars, op_output>>

SpecColorMoodScores == TestInit /\ [][TestSetPhase4b \/ TestScoreRound]_vars

\* C31: with simulated scores passed in brain_data as the demo passes them,
\* the colour mood follows them: rounds of high attention and low relaxation
\* bring previous_color_mood below 0.5, rounds of low attention and high
\* relaxation bring it above 0.5.
C31_MoodFollowsSimulatedScores ==
    op_input.op = "test_round" =>
        /\ op_input.all_focused => previous_color_mood < Half
        /\ op_input.all_calm => previous_color_mood > Half

\* --------------------------------------------- Phase4bTester's colour mood
\* test_phase4b_color_mood.py lines 66-74: the mood simulate_brain_states
\* computes from a pair of scores, weights 0.6, clamped, then the S-curve
SimulatedColorMood(attention, relaxation) ==
    LET tester_weight == (6 * Scale) \div 10
        color_mood == Half - Mul(attention - Half, tester_weight)
                           + Mul(relaxation - Half, tester_weight)
    IN  Ease(Clamp01(color_mood))

Phase4bInit ==
    /\ ClassifierInit /\ ScenarioInit /\ RunningInit
    /\ ControllerInit(NoDevices, NoOrder, color_mood_smoothing_default)
    /\ \E attention \in ScoreGrid, relaxation \in ScoreGrid :
          op_input = [op |-> "simulate_brain_states",
                      attention |-> attention, relaxation |-> relaxation]
    /\ op_output = NoOp

\* one round of the loop of simulate_brain_states (lines 64-77) next to the
\* eased mood of update_from_brain_state for the same scores
SimulateBrainStates ==
    /\ op_output = NoOp
    /\ op_output' = [op |-> "simulate_brain_states",
                     color_mood |-> SimulatedColorMood(op_input.attention,
                                                       op_input.relaxation),
                     eased |-> EasedColorMood(op_input.attention, op_input.relaxation)]
    /\ UNCHANGED <<eegVars, scenarioVars, systemVars, config, pixelblazeVars, op_input>>

SpecPhase4bTester == Phase4bInit /\ [][SimulateBrainStates]_vars

\* C32: for every attention and relaxation in [0, 1] the colour mood of
\* Phase4bTester.simulate_brain_states equals the eased, not yet smoothed,
\* colour mood of update_from_brain_state under the default configuration.
C32_TesterMoodEqualsControllerMood ==
    op_output.op = "simulate_brain_states" => op_output.color_mood = op_output.eased

\* ------------------------------ BiometricWebSocketController.smooth_transition
\* line 424: the constants 3.14159 and 1.5708
transition_pi == RoundDiv(314159 * Scale, 100000)
transition_half_pi == RoundDiv(15708 * Scale, 10000)

\* lines 421-424: progress = step / steps and the eased progress computed
\* from it, 0.5 * (1 + (progress * 3.14159 - 1.5708))
EasedProgress(step, steps) ==
    LET progress == RoundDiv(step * Scale, steps)
    IN  RoundDiv(Scale + Mul(progress, transition_pi) - transition_half_pi, 2)

\* lines 426-431: the variables of one step, for the names in both dicts
Interpolated(current_vars, target_vars, step, steps) ==
    [var_name \in DOMAIN target_vars \cap DOMAIN current_vars |->
        current_vars[var_name]
        + Mul(target_vars[var_name] - current_vars[var_name], EasedProgress(step, steps))]

\* lines 401-440: smooth_transition with the variables get_variables gave
\* (None or a dict), a duration in tenths of a second, and the step from
\* which set_variables gives False (the connection lost and not regained);
\* set_vars are the dicts handed to set_variables, in order
SmoothTransition(current_vars, target_vars, duration, fail_at) ==
    LET steps == duration
    IN  IF current_vars.is_none
        THEN [returned |-> FALSE, raised |-> FALSE, set_vars |-> <<>>]
        ELSE IF steps = 0
        THEN [returned |-> FALSE, raised |-> TRUE, set_vars |-> <<>>]
        ELSE IF fail_at <= steps
        THEN [returned |-> FALSE, raised |-> FALSE,
              set_vars |-> [i \in 1..(fail_at + 1) |->
                              Interpolated(current_vars.doc, target_vars, i - 1, steps)]]
        ELSE [returned |-> TRUE, raised |-> FALSE,
              set_vars |-> [i \in 1..(steps + 1) |->
                              Interpolated(current_vars.doc, target_vars, i - 1, steps)]]

TransitionCurrent ==
    {PyNone, PyDict([brightness |-> Half, hue |-> Half]), PyDict([brightness |-> Scale]),
     PyDict([brightness |-> 0, hue |-> Scale])}

\* line 512 and two more targets
TransitionTargets == {[brightness |-> Scale, hue |-> 0], [hue |-> Scale],
                      [brightness |-> Half, hue |-> Half]}

TransitionInit ==
    /\ ClassifierInit /\ ScenarioInit /\ RunningInit
    /\ ControllerInit(NoDevices, NoOrder, color_mood_smoothing_default)
    /\ \E current_vars \in TransitionCurrent, target_vars \in TransitionTargets,
          duration \in 0..MaxTransitionSteps :
          op_input = [op |-> "smooth_transition", current_vars |-> current_vars,
                      target_vars |-> target_vars, duration |-> duration]
    /\ op_output = NoOp

SmoothTransitionCall ==
    /\ op_output = NoOp
    /\ \E fail_at \in 0..(MaxTransitionSteps + 1) :
          op_output' = [op |-> "smooth_transition", fail_at |-> fail_at,
                        call |-> SmoothTransition(op_input.current_vars, op_input.target_vars,
                                                  op_input.duration, fail_at)]
    /\ UNCHANGED <<eegVars, scenarioVars, systemVars, config, pixelblazeVars, op_input>>

SpecTransition == TransitionInit /\ [][SmoothTransitionCall]_vars

Between(x, a, b) == (a <= x /\ x <= b) \/ (b <= x /\ x <= a)

\* C33: when smooth_transition returns True, its first step sets the current
\* values and its last step the target values, for every variable in both
\* the target and the current variables, and every step in between sets a
\* value between current and target.
C33_TransitionFromCurrentToTarget ==
    (op_output.op = "smooth_transition" /\ op_output.call.returned) =>
        LET set_vars == op_output.call.set_vars
            current_vars == op_input.current_vars.doc
            target_vars == op_input.target_vars
        IN  \A var_name \in DOMAIN target_vars \cap DOMAIN current_vars :
              /\ set_vars[1][var_name] = current_vars[var_name]
              /\ set_vars[Len(set_vars)][var_name] = target_vars[var_name]
              /\ \A i \in DOMAIN set_vars :
                    Between(set_vars[i][var_name], current_vars[var_name],
                            target_vars[var_name])

\* ---------------------------------------------------------------------------
\* the classifier's state and the controller's record of it over the loop
\* the devices that receive activeProgramId during the step
SwitchedNow(ip) == \E i \in 1..Len(wire'[ip]) : wire'[ip][i].kind = "activeProgramId"

\* C34: after every processed tick the controller's last_brain_state equals
\* the classifier's last_brain_state; a pattern switch goes out only on a tick
\* on which the classifier committed a transition, on such a tick it goes to
\* every device that is up and has the pattern, and the first tick, on which
\* the state is still neutral, switches nothing.
C34_DispatcherFollowsClassifier ==
    [][(dispatch_result' = "returned" /\ op_output'.returned = "dict") =>
          LET committed == eeg_last_brain_state' # eeg_last_brain_state
          IN  /\ pb_last_brain_state' = eeg_last_brain_state'
              /\ \A ip \in DOMAIN devices : SwitchedNow(ip) => committed
              /\ committed =>
                    \A ip \in DOMAIN devices :
                        (/\ devices[ip].connected /\ link_up'[ip]
                         /\ HasPatternFor(ip, eeg_last_brain_state')) => SwitchedNow(ip)
              /\ scenario_tick = 0 =>
                    /\ eeg_last_brain_state' = "neutral"
                    /\ \A ip \in DOMAIN devices : ~SwitchedNow(ip)]_vars

C34_Witness ==
    /\ dispatch_result = "returned"
    /\ eeg_last_brain_state = "engaged" /\ pb_last_brain_state = "engaged"
    /\ last_state_change = now
    /\ \E ip \in DOMAIN devices : SwitchIndexes(ip) # {}

\* ------------------------------------------ the candidates behind a commit
\* the candidates of the last state_confidence_required ticks, newest last
LastCandidates(candidates, new_state) ==
    LET all == Append(candidates, new_state)
    IN  IF Len(all) > state_confidence_required THEN Tail(all) ELSE all

\* one _classify_stable_brain_state call (lines 395-422); op_input keeps the
\* candidates of the latest ticks and op_output whether this tick committed
ClassifyCandidateTick ==
    /\ scenario_tick < MaxCommitTicks
    /\ \E attention \in ScoreValues, relaxation \in ScoreValues,
          dt \in {1, min_state_duration} :
          /\ ClassifyStableBrainState(attention, relaxation, now + dt)
          /\ op_input' = [op |-> "_classify_stable_brain_state",
                          candidates |->
                              LastCandidates(IF op_input = NoOp THEN <<>>
                                             ELSE op_input.candidates,
                                             CandidateState(attention, relaxation))]
          /\ op_output' = [op |-> "_classify_stable_brain_state",
                           committed |-> eeg_last_brain_state' # eeg_last_brain_state]
    /\ scenario_tick' = scenario_tick + 1
    /\ UNCHANGED <<scenario_start, systemVars, config, pixelblazeVars>>

SpecCommitHistory == SystemInit /\ [][ClassifyCandidateTick]_vars

\* C35: whenever the classifier commits a new state, that state was the
\* candidate on each of the last state_confidence_required ticks; a state that
\* was the candidate on the committing tick only is never committed.
C35_CommittedWasCandidateThroughout ==
    (op_output.op = "_classify_stable_brain_state" /\ op_output.committed) =>
        /\ Len(op_input.candidates) = state_confidence_required
        /\ \A i \in DOMAIN op_input.candidates :
              op_input.candidates[i] = eeg_last_brain_state

\* ------------------------------------- the probe's rule and the handshake's
\* lines 679-683: how the ping of _connect_device ends on a host that gives
\* the reply it gave the probe; .get("ack") of a device's acknowledgement is
\* truthy, a document without "ack" gives None, and a reply that is no JSON
\* object, or no reply, raises
PingOutcome(reply) ==
    IF reply.kind # "object" THEN "raises"
    ELSE IF "ack" \in reply.keys THEN "ack"
    ELSE "no_ack"

\* the addresses of the scanned range, in the order their threads report
ScannedHosts == <<"192.168.0.11", "192.168.0.12", "192.168.0.13">>

HandshakeReplies == {ObjectReply({"ack"}), ObjectReply({"fps"}), ObjectReply({"ack", "fps"}),
                     ObjectReply({"name"}), NoReply}

AcceptedProbe(reply) == [connect |-> "accepted", send_raises |-> FALSE, reply |-> reply]

\* lines 566-572: the addresses whose probe said "device"
ProbedDevices(replies) ==
    SelectSeq(ScannedHosts, LAMBDA ip : IsPixelblaze(AcceptedProbe(replies[ip])))

\* line 653: discover_devices has probed hosts that answer with replies
ProbeAndConnectInit ==
    /\ ClassifierInit /\ ScenarioInit /\ RunningInit
    /\ ControllerInit(NoDevices, NoOrder, color_mood_smoothing_default)
    /\ \E replies \in [SeqRange(ScannedHosts) -> HandshakeReplies],
          max_controllers \in MaxControllers :
          op_input = [op |-> "discover_and_connect", replies |-> replies,
                      discovered_ips |-> ProbedDevices(replies),
                      max_controllers |-> max_controllers]
    /\ op_output = [op |-> "loop", connected_count |-> 0]

\* lines 663-669: one pass of the loop; the host answers the ping of
\* _connect_device as it answered the probe
ConnectProbed ==
    LET ips == LimitToMaxControllers(op_input.discovered_ips, op_input.max_controllers)
    IN  /\ op_output.op = "loop"
        /\ scenario_tick < Len(ips)
        /\ LET ip == ips[scenario_tick + 1]
               call == ConnectDevice([ping |-> PingOutcome(op_input.replies[ip]),
                                      list_reply |-> <<TextFrame(ScenarioCText)>>,
                                      vars_reply |-> <<VarsFrame>>])
           IN  IF call.returned
               THEN /\ devices' = Extend(devices, ip, call.device)
                    /\ device_order' = Append(device_order, ip)
                    /\ link_up' = Extend(link_up, ip, TRUE)
                    /\ wire' = Extend(wire, ip, NoMessages)
                    /\ op_output' = [op_output EXCEPT !.connected_count = @ + 1]
               ELSE UNCHANGED <<devices, device_order, link_up, wire, op_output>>
        /\ scenario_tick' = scenario_tick + 1
        /\ UNCHANGED <<eegVars, scenario_start, systemVars, config, pb_last_brain_state,
                       previous_color_mood, color_mood_smoothing, last_attention,
                       last_relaxation, callVars, op_input>>

SpecProbeAndConnect ==
    ProbeAndConnectInit /\ [][ConnectProbed \/ DiscoverAndConnectReturn]_vars

\* C36: every host the probe classified as a device, and that answers the
\* connect handshake as it answered the probe, is connected when
\* discover_and_connect returns, up to max_controllers hosts: the handshake
\* accepts what the probe accepts, also a reply with only the fps field.
C36_ProbedDeviceBecomesConnected ==
    op_output.op = "discover_and_connect" =>
        LET ips == LimitToMaxControllers(op_input.discovered_ips, op_input.max_controllers)
        IN  \A i \in DOMAIN ips :
              /\ ips[i] \in DOMAIN devices
              /\ devices[ips[i]].connected

\* ------------------------------------------- the receive loop, frame by frame
\* what a device does after listPrograms: it delivers the frames of prefix,
\* then stays silent, or streams JSON status frames without end, or streams
\* text frames that do not end in a line ending
CatalogPrefixFrames == {StatusFrame, TextFrame(Line("AB12CD34", Name_sparkfire)),
                        TextFrame(ScenarioCText)}
CatalogDevices ==
    [prefix : UNION {[1..n -> CatalogPrefixFrames] : n \in 0..2},
     then : {"silent", "status_stream", "text_stream"}]

\* line 709: what recv gives on its call number index + 1; on a silent socket
\* it raises after connection_timeout
RecvOf(device, index) ==
    IF index < Len(device.prefix) THEN [timed_out |-> FALSE, data |-> device.prefix[index + 1]]
    ELSE IF device.then = "silent" THEN [timed_out |-> TRUE, data |-> TextFrame(<<>>)]
    ELSE IF device.then = "status_stream" THEN [timed_out |-> FALSE, data |-> StatusFrame]
    ELSE [timed_out |-> FALSE, data |-> TextFrame(<<"x">>)]

\* the model keeps the first MaxCatalogText symbols of the text; the loop's
\* control flow does not read the text
KeptText(text) == SubSeq(text, 1, Min(Len(text), MaxCatalogText))

\* lines 707-727: one pass of the while loop; done tells whether it breaks
ReceiveStep(recv, pattern_list_text) ==
    IF recv.timed_out THEN [done |-> TRUE, text |-> pattern_list_text]
    ELSE IF StartsWithBrace(recv.data.text) THEN [done |-> FALSE, text |-> pattern_list_text]
    ELSE [done |-> EndsWithLineEnding(recv.data.text),
          text |-> KeptText(pattern_list_text \o recv.data.text)]

\* line 683: the ping was acknowledged; the device will behave as op_input says
CatalogLoadInit ==
    /\ ClassifierInit /\ ScenarioInit /\ RunningInit
    /\ ControllerInit(NoDevices, NoOrder, color_mood_smoothing_default)
    /\ \E device \in CatalogDevices :
          op_input = [op |-> "_connect_device", prefix |-> device.prefix,
                      then |-> device.then]
    /\ op_output = NoOp

\* lines 703-706: listPrograms is sent and the text starts empty
SendListPrograms ==
    /\ op_output = NoOp
    /\ op_output' = [op |-> "recv", index |-> 0, pattern_list_text |-> <<>>]
    /\ UNCHANGED <<eegVars, scenarioVars, systemVars, config, pixelblazeVars, op_input>>

\* lines 708-739 and 690-692: one recv of the loop; when the loop breaks the
\* catalog is parsed and _connect_device returns. scenario_tick is the parity
\* of the number of recv calls
RecvFrame ==
    /\ op_output.op = "recv"
    /\ LET step == ReceiveStep(RecvOf(op_input, op_output.index),
                               op_output.pattern_list_text)
       IN  op_output' =
             IF step.done
             THEN [op |-> "_connect_device", returned |-> TRUE,
                   patterns |-> ParsePatternList(<<>>, step.text)]
             ELSE [op |-> "recv",
                   index |-> Min(op_output.index + 1, Len(op_input.prefix)),
                   pattern_list_text |-> step.text]
    /\ scenario_tick' = (scenario_tick + 1) % 2
    /\ UNCHANGED <<eegVars, scenario_start, systemVars, config, pixelblazeVars, op_input>>

\* recv blocks the thread until a frame arrives or the socket times out, so
\* the loop always takes its next step
SpecCatalogLoad ==
    /\ CatalogLoadInit
    /\ [][SendListPrograms \/ RecvFrame]_vars
    /\ WF_vars(SendListPrograms) /\ WF_vars(RecvFrame)

\* C37: whatever frames the device sends after listPrograms, also status
\* frames without end or text frames that never end a line,
\* _load_device_patterns returns in the end and _connect_device completes.
C37_CatalogLoadTerminates == <>(op_output.op = "_connect_device")

\* ------------------------------------- MindShowIntegratedSystem.switch_device_pattern
\* a catalog in which one name holds another
CatalogRainbows == << <<"EF56GH78", <<"f","a","s","t"," ","r","a","i","n","b","o","w">> >>,
                      <<"UV12WX34", <<"R","a","i","n","b","o","w">> >> >>
SwitchCatalogs == {CatalogFull, CatalogOther, CatalogRainbows}
SwitchPatternIds == {"AB12CD34", "EF56GH78", "IJ90KL12", "UV12WX34", "ZZ00ZZ00"}
SwitchDeviceAddress == DiscoveryOrder[1]

HasPatternId(patterns, pattern_id) == \E i \in DOMAIN patterns : patterns[i][1] = pattern_id

\* lines 2012-2034, with the task of lines 2022-2024 run to its end
\* (_update_device, lines 872-874, hands over to _update_device_continuous)
SwitchDevicePattern(registry, device_ip, pattern_id, fail_at) ==
    IF device_ip \in DOMAIN registry /\ registry[device_ip].connected
    THEN LET device == registry[device_ip]
             pattern_name == PatternNameOf(device.patterns, pattern_id)
             task == UpdateDeviceContinuous(device, pattern_name, EmptyDict, fail_at)
         IN  [returned |-> TRUE, pattern_name |-> pattern_name, found |-> TRUE,
              device |-> task.device, sent |-> task.sent]
    ELSE [returned |-> FALSE, pattern_name |-> <<>>, found |-> FALSE,
          device |-> NewDevice, sent |-> NoMessages]

\* one registered device, connected or marked disconnected
SwitchDeviceInit ==
    /\ ClassifierInit /\ ScenarioInit /\ RunningInit
    /\ \E catalog \in SwitchCatalogs, connected \in BOOLEAN,
          active_pattern \in {"None", "AB12CD34"} :
          ControllerInit([ip \in {SwitchDeviceAddress} |->
                            [ConnectedDevice(catalog) EXCEPT !.connected = connected,
                                                             !.active_pattern = active_pattern]],
                         <<SwitchDeviceAddress>>, color_mood_smoothing_default)
    /\ op_input = NoOp
    /\ op_output = NoOp

\* POST /api/switch_pattern for a device address and a pattern id
SwitchDevicePatternCall ==
    /\ op_output = NoOp
    /\ \E device_ip \in DeviceIPs, pattern_id \in SwitchPatternIds, fail_at \in 0..2 :
          LET call == SwitchDevicePattern(devices, device_ip, pattern_id, fail_at)
          IN  /\ op_input' = [op |-> "switch_device_pattern", device_ip |-> device_ip,
                              pattern_id |-> pattern_id, fail_at |-> fail_at,
                              was_connected |-> /\ device_ip \in DOMAIN devices
                                                /\ devices[device_ip].connected,
                              in_catalog |-> /\ device_ip \in DOMAIN devices
                                             /\ HasPatternId(devices[device_ip].patterns,
                                                             pattern_id)]
              /\ op_output' = [op |-> "switch_device_pattern", returned |-> call.returned,
                               pattern_name |-> call.pattern_name]
              /\ devices' = IF call.found THEN [devices EXCEPT ![device_ip] = call.device]
                            ELSE devices
              /\ wire' = [ip \in DOMAIN devices |->
                            IF call.found /\ ip = device_ip THEN call.sent ELSE NoMessages]
              /\ link_up' = [ip \in DOMAIN devices |->
                               IF call.found /\ ip = device_ip /\ fail_at > 0 THEN FALSE
                               ELSE link_up[ip]]
    /\ UNCHANGED <<eegVars, scenarioVars, systemVars, config, pb_last_brain_state,
                   previous_color_mood, color_mood_smoothing, last_attention,
                   last_relaxation, device_order, callVars>>

SpecSwitchDevice == SwitchDeviceInit /\ [][SwitchDevicePatternCall]_vars

\* C38: on a connected device whose socket holds, switch_device_pattern with
\* a pattern id of the catalog sends activeProgramId with exactly that id and
\* leaves active_pattern at that id, whatever else the catalog holds; with an
\* id that is not in the catalog it reports failure.
C38_SwitchesToRequestedId ==
    (/\ op_output.op = "switch_device_pattern"
     /\ op_input.was_connected /\ op_input.fail_at = 0) =>
        LET ip == op_input.device_ip
        IN  IF op_input.in_catalog
            THEN /\ op_output.returned
                 /\ \E i \in 1..Len(wire[ip]) :
                       /\ wire[ip][i].kind = "activeProgramId"
                       /\ wire[ip][i].id = op_input.pattern_id
                 /\ \A i \in 1..Len(wire[ip]) :
                       wire[ip][i].kind = "activeProgramId" =>
                           wire[ip][i].id = op_input.pattern_id
                 /\ devices[ip].active_pattern = op_input.pattern_id
            ELSE ~op_output.returned

\* --------------------------------------- RobustWebSocketController.is_healthy
\* how one command ends on an open socket: the reply holds the key asked for,
\* it is a JSON object without it, it is a JSON number, the send raises, or
\* recv times out
CommandOutcomes == {"answer", "other", "number", "send_raises", "timeout"}

\* lines 112-137 around lines 139-159: safe_operation on a get_* or set_*
\* function that calls send_command once. ctl is the controller (ws_connected,
\* is_healthy), reconnects tells whether a connect_with_retry cycle, if one is
\* started, succeeds, closes whether a failed transfer leaves the socket closed
GuardedCommand(ctl, reconnects, outcome, closes) ==
    IF ~ctl.ws_connected /\ ~reconnects
    THEN [ctl |-> [ws_connected |-> FALSE, is_healthy |-> FALSE],
          is_none |-> TRUE, transport_failed |-> FALSE]
    ELSE LET is_healthy == IF ~ctl.ws_connected THEN TRUE ELSE ctl.is_healthy
         IN  IF outcome \in {"send_raises", "timeout"}
             THEN [ctl |-> [ws_connected |-> ~closes, is_healthy |-> is_healthy],
                   is_none |-> TRUE, transport_failed |-> TRUE]
             ELSE IF outcome = "number"
             THEN [ctl |-> [ws_connected |-> TRUE, is_healthy |-> FALSE],
                   is_none |-> TRUE, transport_failed |-> FALSE]
             ELSE [ctl |-> [ws_connected |-> TRUE, is_healthy |-> is_healthy],
                   is_none |-> outcome # "answer", transport_failed |-> FALSE]

\* lines 261-305: health_check; first and second are the get_variables and
\* get_active_pattern calls
HealthCheck(ctl, reconnects, outcomes, closes) ==
    IF ~ctl.ws_connected
    THEN [ctl |-> ctl, status |-> "unhealthy", transport_failed |-> FALSE]
    ELSE LET first == GuardedCommand(ctl, reconnects[1], outcomes[1], closes[1])
             second == GuardedCommand(first.ctl, reconnects[2], outcomes[2], closes[2])
             failed == first.transport_failed \/ second.transport_failed
         IN  IF first.is_none \/ second.is_none
             THEN [ctl |-> second.ctl, status |-> "unhealthy", transport_failed |-> failed]
             ELSE [ctl |-> [second.ctl EXCEPT !.is_healthy = TRUE],
                   status |-> "healthy", transport_failed |-> failed]

\* lines 27-48: a new controller, no socket yet and is_healthy False
HealthInit ==
    /\ ClassifierInit /\ ScenarioInit /\ RunningInit
    /\ ControllerInit(NoDevices, NoOrder, color_mood_smoothing_default)
    /\ op_input = [op |-> "RobustWebSocketController", ws_connected |-> FALSE,
                   is_healthy |-> FALSE]
    /\ op_output = NoOp

Controller(ctl) == [op |-> "RobustWebSocketController", ws_connected |-> ctl.ws_connected,
                    is_healthy |-> ctl.is_healthy]

\* one get_variables, get_active_pattern, set_variables or set_active_pattern
GuardedCommandCall ==
    /\ scenario_tick < MaxHealthOps
    /\ \E reconnects \in BOOLEAN, outcome \in CommandOutcomes, closes \in BOOLEAN :
          LET call == GuardedCommand(op_input, reconnects, outcome, closes)
          IN  /\ op_input' = Controller(call.ctl)
              /\ op_output' = [op |-> "safe_operation", status |-> "none",
                               outcomes |-> <<outcome>>,
                               transport_failed |-> call.transport_failed]
    /\ scenario_tick' = scenario_tick + 1
    /\ UNCHANGED <<eegVars, scenario_start, systemVars, config, pixelblazeVars>>

\* one health_check
HealthCheckCall ==
    /\ scenario_tick < MaxHealthOps
    /\ \E reconnects \in [1..2 -> BOOLEAN], outcomes \in [1..2 -> CommandOutcomes],
          closes \in [1..2 -> BOOLEAN] :
          LET call == HealthCheck(op_input, reconnects, outcomes, closes)
          IN  /\ op_input' = Controller(call.ctl)
              /\ op_output' = [op |-> "health_check", status |-> call.status,
                               outcomes |-> outcomes,
                               transport_failed |-> call.transport_failed]
    /\ scenario_tick' = scenario_tick + 1
    /\ UNCHANGED <<eegVars, scenario_start, systemVars, config, pixelblazeVars>>

SpecHealth == HealthInit /\ [][GuardedCommandCall \/ HealthCheckCall]_vars

\* C39: after an operation in which a send or a receive on the socket failed
\* is_healthy is False, and after a health_check is_healthy is True exactly
\* when the status returned is 'healthy'.
C39_HealthFlagTracksFailures ==
    /\ (op_output.op # "none" /\ op_output.transport_failed) => ~op_input.is_healthy
    /\ op_output.op = "health_check" =>
          (op_input.is_healthy <=> op_output.status = "healthy")

====
